---- MODULE Spec2Model ----
(***************************************************************************)
(* A model of bloeys/wavy: the in-memory SoundBuffer (read/seek cursor),   *)
(* Sound.Close, and the playback controller of Sound (Wait, WaitLoop,      *)
(* PlayAsync, LoopAsync and its goroutine, Pause, SeekToPercent) running   *)
(* against the device player it drives.                                    *)
(*                                                                         *)
(* Three specifications share the module:                                  *)
(*   SpecBuf   - SoundBuffer.Read / SoundBuffer.Seek on one buffer         *)
(*   SpecClose - Sound.Close called repeatedly on one sound                *)
(*   Spec      - the playback controller: caller threads, loop goroutines  *)
(*               and the device player's thread, interleaved statement by  *)
(*               statement                                                 *)
(* Each specification leaves the other parts' variables at their initial   *)
(* values.                                                                 *)
(***************************************************************************)
EXTENDS Integers, Sequences, FiniteSets, Bags, TLC

Min(a, b) == IF a < b THEN a ELSE b

(***************************************************************************)
(* Bounds                                                                  *)
(***************************************************************************)
\* Go's int64 is modelled as a two's-complement integer of IntBits bits.
IntBits == 4
\* Longest byte slice held by a SoundBuffer in SpecBuf.
MaxDataLen == 2
\* Longest output slice handed to SoundBuffer.Read in SpecBuf.
MaxOutLen == 2

Pow2(n) == 2 ^ n
MinInt == 0 - Pow2(IntBits - 1)
MaxInt == Pow2(IntBits - 1) - 1
\* Two's-complement wrap-around of int64 arithmetic
Wrap(x) == ((x - MinInt) % Pow2(IntBits)) + MinInt
IntRange == MinInt..MaxInt

(***************************************************************************)
(* Part 1: SoundBuffer                                                     *)
(***************************************************************************)
\* io.SeekStart, io.SeekCurrent, io.SeekEnd
SeekStart == 0
SeekCurrent == 1
SeekEnd == 2
\* whence values tried by the model: the three legal ones and two others
Whences == {-1, SeekStart, SeekCurrent, SeekEnd, 3}

\* The position Seek computes before it validates it (newPos of the code);
\* "invalid" stands for the default branch of the switch.
SeekTarget(len, pos, offset, whence) ==
    CASE whence = SeekStart   -> offset
      [] whence = SeekCurrent -> Wrap(pos + offset)
      [] whence = SeekEnd     -> Wrap(len + offset)
      [] OTHER                -> pos

\* SoundBuffer.Seek as a function of the buffer's length and cursor:
\* the returned value, the error and the cursor afterwards.
SBSeekNoNegCheck(len, pos, offset, whence) ==
    IF whence \notin {SeekStart, SeekCurrent, SeekEnd}
      THEN [ret |-> 0, err |-> "ErrInvalidWhence", pos |-> pos]
      ELSE [ret |-> SeekTarget(len, pos, offset, whence), err |-> "nil",
            pos |-> SeekTarget(len, pos, offset, whence)]

SBSeek(len, pos, offset, whence) ==
    IF whence \notin {SeekStart, SeekCurrent, SeekEnd}
      THEN [ret |-> 0, err |-> "ErrInvalidWhence", pos |-> pos]
      ELSE IF SeekTarget(len, pos, offset, whence) < 0
        THEN [ret |-> 0, err |-> "ErrNegativeSeekPos", pos |-> pos]
        ELSE [ret |-> SeekTarget(len, pos, offset, whence), err |-> "nil",
              pos |-> SeekTarget(len, pos, offset, whence)]

\* SoundBuffer.Read as a function of the data, the cursor and len(outBuf).
\* sb.Data[sb.Pos:] is a slice expression: it panics when Pos > len(Data).
SBRead(data, pos, outLen) ==
    IF pos > Len(data)
      THEN [panic |-> TRUE, n |-> 0, err |-> "panic", pos |-> pos, out |-> <<>>]
      ELSE LET n == Min(outLen, Len(data) - pos) IN
           IF n = 0
             THEN [panic |-> FALSE, n |-> 0, err |-> "EOF", pos |-> pos, out |-> <<>>]
             ELSE [panic |-> FALSE, n |-> n, err |-> "nil", pos |-> pos + n,
                   out |-> SubSeq(data, pos + 1, pos + n)]

VARIABLES
    sbData,     \* SoundBuffer.Data (in Spec and SpecClose: the sound's decoded bytes)
    sbPos,      \* SoundBuffer.Pos  (in Spec and SpecClose: the sound's read cursor)
    sbOp,       \* the last call on the buffer: its name, arguments and cursor before
    sbRes,      \* what the last call returned
    panicked    \* the process has panicked (a Go runtime panic nobody recovers)

sbVars == <<sbData, sbPos, sbOp, sbRes, panicked>>
sbCallVars == <<sbData, sbPos, sbOp, sbRes>>

NoOp == [name |-> "none", offset |-> 0, whence |-> 0, outLen |-> 0, before |-> 0]
NoRes == [n |-> 0, err |-> "nil", out |-> <<>>]

Bytes == {1, 2}
DataSets == UNION {[1..l -> Bytes] : l \in 0..MaxDataLen}

(***************************************************************************)
(* Part 2: the Sound, its device player and Sound.Close                    *)
(***************************************************************************)
\* Length in bytes of the decoded sound played in Spec and SpecClose.
SoundLen == 2
\* Capacity in bytes of the device player's internal buffer.
BufCap == 1
\* Most Close calls made in SpecClose.
MaxCloseCalls == 3

SoundData == [i \in 1..SoundLen |-> 1]

\* Go error values are modelled as sequences of message parts; nil is <<>>.
NilErr == <<>>
FileErr == <<"file close failed">>
PlayerErr == <<"player close failed">>

VARIABLES
    mode,          \* Sound.Info.Mode: "Streaming" or "Memory"
    dataNil,       \* Sound.Data == nil
    fileState,     \* Sound.File: "none" (nil), "open" or "closed"
    fileCloses,    \* number of File.Close calls made
    playerCloses,  \* number of Player.Close calls made
    closeCalls,    \* number of Sound.Close calls made
    closeLast,     \* the last Close call: what it found, attempted and returned
    IsLooping,     \* Sound.IsLooping
    playing,       \* device player: IsPlaying()
    buf,           \* device player: UnplayedBufferSize()
    eof,           \* device player: the source has reported end of stream
    stopped        \* history: Player.Pause stopped a playback that has not been resumed or reset

soundVars == <<mode, dataNil, fileState, fileCloses, playerCloses, closeCalls, closeLast>>
playerVars == <<playing, buf, eof, stopped>>

NoClose == [wasClosed |-> FALSE, fdTried |-> FALSE, plTried |-> FALSE,
            fdErr |-> NilErr, plErr |-> NilErr, ret |-> NilErr]

\* A memory-mode sound as NewSoundMem returns it: Data set, no File.
SoundIdle ==
    /\ mode = "Memory"
    /\ dataNil = FALSE
    /\ fileState = "none"
    /\ fileCloses = 0
    /\ playerCloses = 0
    /\ closeCalls = 0
    /\ closeLast = NoClose

\* A new player: paused, nothing buffered.
PlayerIdle ==
    /\ playing = FALSE
    /\ buf = 0
    /\ eof = FALSE
    /\ stopped = FALSE

\* Sound.IsClosed
IsClosed == dataNil

\* The value Close returns, from the two errors it collected.
CloseResultDropsFile(fdErr, playerErr) ==
    IF playerErr = NilErr /\ fdErr = NilErr THEN NilErr
    ELSE IF playerErr # NilErr THEN playerErr
    ELSE fdErr

CloseResult(fdErr, playerErr) ==
    IF playerErr = NilErr /\ fdErr = NilErr THEN NilErr
    ELSE IF playerErr # NilErr /\ fdErr # NilErr
      THEN <<"closingFileErr: ">> \o fdErr \o <<"; underlyingPlayerErr: ">> \o playerErr
    ELSE IF playerErr # NilErr THEN playerErr
    ELSE fdErr

\* The early return of Close: "if s.IsClosed() { return nil }"
CloseSkipsNever == FALSE

CloseSkips == IsClosed

(* Device player.  Play fills the buffer from the source until it is full or
   the source reports end of stream, and the player is playing afterwards
   unless there is nothing to play. *)
PlayerPlay ==
    IF playerCloses > 0 \/ playing
      THEN UNCHANGED <<playing, buf, eof, stopped, sbPos>>
      ELSE LET room == BufCap - buf
               r    == SBRead(sbData, sbPos, room)
               hitEnd == ~eof /\ room > 0 /\ r.n < room
           IN  /\ buf' = IF eof THEN buf ELSE buf + r.n
               /\ sbPos' = IF eof THEN sbPos ELSE r.pos
               /\ eof' = (eof \/ hitEnd)
               /\ playing' = (~(eof \/ hitEnd) \/ buf + (IF eof THEN 0 ELSE r.n) > 0)
               /\ stopped' = FALSE

\* Player.Pause
PlayerPauseKeepsPlaying == UNCHANGED <<playing, stopped, buf, eof>>

PlayerPause ==
    /\ playing' = FALSE
    /\ stopped' = (stopped \/ playing)
    /\ UNCHANGED <<buf, eof>>

PlayerReset ==
    IF playerCloses > 0
      THEN UNCHANGED <<playing, buf, eof, stopped>>
      ELSE /\ playing' = FALSE
           /\ buf' = 0
           /\ eof' = FALSE
           /\ stopped' = FALSE

\* The player's end of a playback: end of stream seen and the buffer empty.
Finishes == playing /\ ~playing' /\ eof' /\ buf' = 0

\* The device thread reads the source (SoundBuffer.Read) into the buffer.
DeviceReadSteps ==
    /\ playing /\ ~eof /\ buf < BufCap
    /\ LET r == SBRead(sbData, sbPos, BufCap - buf) IN
        IF r.err = "EOF"
          THEN /\ eof' = TRUE
               /\ playing' = (buf > 0)
               /\ UNCHANGED <<buf, sbPos, stopped>>
          ELSE /\ buf' = buf + r.n
               /\ sbPos' = r.pos
               /\ UNCHANGED <<eof, playing, stopped>>

\* The device thread plays one buffered byte out.
DevicePlaysOut ==
    /\ playing /\ buf > 0
    /\ buf' = buf - 1
    /\ playing' = ~(eof /\ buf - 1 = 0)
    /\ UNCHANGED <<eof, stopped, sbPos>>

\* A percentage is modelled as a fraction <<numerator, denominator>>, denominator > 0.
clamp01F64(x) ==
    IF x[1] < 0 THEN <<0, 1>>
    ELSE IF x[1] > x[2] THEN <<1, 1>>
    ELSE x

(***************************************************************************)
(* Variables of the parts that follow the playback controller              *)
(***************************************************************************)
\* Length of the byte array the buffers of SpecCopy share.
ArrLen == 2
\* Most SoundBuffer objects allocated in SpecCopy.
MaxBufs == 3
Addrs == 1..MaxBufs
\* Most calls on the buffers followed in SpecCopy.
MaxHeapCalls == 4

VARIABLES
    backing,     \* the byte array behind SoundBuffer.Data, shared by copies
    heap,        \* the SoundBuffer objects by address: [live, lo, hi, pos], where
                 \* Data is the slice backing[lo:hi]
    heapOp,      \* the last operation on the heap: its name, the buffer it was
                 \* called on and the buffer it returned (0: none)
    heapCalls    \* the number of calls made on the heap's buffers

copyVars == <<backing, heap, heapOp, heapCalls>>

\* Bytes of a streamed file before its PCM data (the value of PCMStart).
HeaderLen == 1
\* Bytes of PCM data in a streamed file.
PCMLen == 2
FileLen == HeaderLen + PCMLen

VARIABLES
    kind,        \* the stream: "wav" (WavStreamer) or "ogg" (OggStreamer)
    mutex,       \* the stream's mutex: "none" or the thread that holds it
    wsPos,       \* WavStreamer.Pos
    wsPCMStart,  \* WavStreamer.PCMStart
    decPos,      \* the decoder's position: for wav the offset of the file under
                 \* Dec, for ogg Dec.Position() in samples
    decOK,       \* the decoder can still be used (no Rewind has failed)
    rpc,         \* the device player's thread, which calls Read: where it is
    rd,          \* its Read call: [outLen, n, err]
    spc,         \* the caller thread, which calls Seek: where it is
    sk,          \* its Seek call: [offset, whence, n, pos0, dec0, rewinds, seeks, err],
                 \* where pos0 and dec0 are Pos and the decoder's position when
                 \* the call took the mutex, and rewinds and seeks count the
                 \* decoder calls made so far
    skFailed     \* history: some Seek on the stream has returned an error

streamVars == <<kind, mutex, wsPos, wsPCMStart, decPos, decOK, rpc, rd, spc, sk, skFailed>>
VARIABLES
    bufRd,       \* a Read on the SoundBuffer by the device thread: [pc, outLen,
                 \* from, n, err, tmp], from being the cursor the copy started at
    bufSk,       \* a Seek on the same SoundBuffer by a caller thread:
                 \* [pc, via, offset, whence, newPos, ret, err], via being the
                 \* call that made it: "Seek" itself or "SeekToPercent"
    bufPos0      \* the cursor when the two calls were made

raceVars == <<bufRd, bufSk, bufPos0>>

\* Longest play time converted in SpecConv, in milliseconds.
MaxMs == 1001

VARIABLES
    SamplingRate,  \* the package's SamplingRate, 0 before Init
    ChanCount,     \* the package's ChanCount, 0 before Init
    BitDepth,      \* the package's BitDepth, 0 before Init
    conv           \* the conversions made so far: [pc, t, b, t2, b2], times in
                   \* milliseconds: b of t, t2 of b, b2 of t2

convVars == <<SamplingRate, ChanCount, BitDepth, conv>>

\* Length in bytes of the sound of SpecTime.
TimeLen == 50

VARIABLES
    rem,         \* the last RemainingTime call: [called, turn, closed, touched,
                 \* unplayed, ret]: turn changes with every call; whether the
                 \* sound was closed, whether the call went on to the source and
                 \* the player, the unplayed buffer size it got and the
                 \* milliseconds it returned
    tot          \* the milliseconds TotalTime returned last on the open sound
                 \* and last on the closed sound (-1: not called)

timeVars == <<rem, tot>>

VARIABLES
    volume,      \* device player: Volume(), a fraction <<numerator, denominator>>
    players,     \* number of device players made so far (Ctx.NewPlayer calls)
    clipCut,     \* bytes of the origin's data a clip leaves out of its own buffer
                 \* (0 for a sound that is no clip)
    api,         \* the last call of SetVolume, SeekToPercent, SeekToTime or PlaySync:
                 \* its name and argument, whether it reset the player and the
                 \* offset it handed to Seek (-1: none); turn flips at each call
    load,        \* the last call of a loader or of GetSoundFileType: [turn, fn,
                 \* path, type, io, handle, err, sound]: the path given (a
                 \* sequence of characters), the type found, the file call
                 \* made ("none", "Open", "ReadFile"), whether an open file
                 \* handle is left behind, the error and whether a Sound
                 \* was returned
    snd          \* the Sound objects whose buffer is on the heap, by the
                 \* address of the buffer: [size, vol, looping, player]:
                 \* Info.Size, the volume of the sound's device player,
                 \* IsLooping, and which device player it has (0: none)

apiVars == <<volume, players, clipCut, api, load, snd>>

\* The variables of the parts that come after the streamers
lateVars == <<raceVars, convVars, timeVars, apiVars>>
\* The variables the playback controller, Close and SoundBuffer parts leave alone
extVars == <<copyVars, streamVars, lateVars>>

NoRead == [outLen |-> 0, n |-> 0, err |-> "nil"]
NoSeek == [offset |-> 0, whence |-> 0, n |-> 0, pos0 |-> 0, dec0 |-> 0,
           rewinds |-> 0, seeks |-> 0, err |-> "nil"]

\* A stream as its constructor returns it.  NewWavStreamer: Pos and PCMStart at
\* the start of the PCM data, where FwdToPCM left the file.  NewOggStreamer: a
\* fresh decoder at sample 0 (decPos counts samples; Pos and PCMStart are not
\* fields of an OggStreamer and stay 0).
StreamNew(k) ==
    /\ kind = k
    /\ mutex = "none"
    /\ wsPos = (IF k = "wav" THEN HeaderLen ELSE 0)
    /\ wsPCMStart = (IF k = "wav" THEN HeaderLen ELSE 0)
    /\ decPos = (IF k = "wav" THEN HeaderLen ELSE 0)
    /\ decOK = TRUE
    /\ rpc = "idle" /\ rd = NoRead
    /\ spc = "idle" /\ sk = NoSeek
    /\ skFailed = FALSE

StreamIdle == StreamNew("wav")

NoBuf == [live |-> FALSE, lo |-> 0, hi |-> 0, pos |-> 0]
NoHeapOp == [name |-> "none", on |-> 0, new |-> 0]

\* One SoundBuffer over the whole array, as NewSoundMem makes it
CopyIdle ==
    /\ backing = [i \in 1..ArrLen |-> i]
    /\ heap = [a \in Addrs |-> IF a = 1
                                 THEN [live |-> TRUE, lo |-> 0, hi |-> ArrLen, pos |-> 0]
                                 ELSE NoBuf]
    /\ heapOp = NoHeapOp
    /\ heapCalls = 0

NoBufRd == [pc |-> "idle", outLen |-> 0, from |-> 0, n |-> 0, err |-> "nil", tmp |-> 0]
NoBufSk == [pc |-> "idle", via |-> "Seek", offset |-> 0, whence |-> 0, newPos |-> 0, ret |-> 0, err |-> "nil"]

RaceIdle == bufRd = NoBufRd /\ bufSk = NoBufSk /\ bufPos0 = 0

NoConv == [pc |-> "start", t |-> 0, b |-> 0, t2 |-> 0, b2 |-> 0]

\* The package before Init: its variables hold Go's zero values
ConvIdle == SamplingRate = 0 /\ ChanCount = 0 /\ BitDepth = 0 /\ conv = NoConv

NoRem == [called |-> FALSE, turn |-> FALSE, closed |-> FALSE, touched |-> FALSE, unplayed |-> 0, ret |-> 0]
NoTot == [open |-> -1, closed |-> -1]

TimeIdle == rem = NoRem /\ tot = NoTot

NoApi == [turn |-> FALSE, name |-> "none", arg |-> <<0, 1>>, reset |-> FALSE, offset |-> -1]
NoLoad == [turn |-> FALSE, fn |-> "none", path |-> <<>>, type |-> "none", io |-> "none",
           handle |-> FALSE, err |-> "nil", sound |-> FALSE]

\* One player at the default volume 1, made by the loader for a sound that is no clip
\* The one sound NewSoundMem has returned: "s.Info.Size = int64(len(sb.Data))",
\* its player the first, at the default volume
NoSound == [size |-> 0, vol |-> <<1, 1>>, looping |-> FALSE, player |-> 0]
LoadedSounds ==
    [a \in Addrs |-> IF a = 1 THEN [NoSound EXCEPT !.size = ArrLen, !.player = 1]
                               ELSE NoSound]

ApiIdle ==
    /\ volume = <<1, 1>> /\ players = 1 /\ clipCut = 0 /\ api = NoApi /\ load = NoLoad
    /\ snd = LoadedSounds

LateIdle == RaceIdle /\ ConvIdle /\ TimeIdle /\ ApiIdle

ExtIdle == CopyIdle /\ StreamIdle /\ LateIdle

\* Sound.Info.Size.  NewSoundMem sets it to int64(len(sb.Data)); CopyInMemSound
\* and ClipInMemSoundPercent hand the origin's Info on ("Info: s.Info"), so a
\* clip keeps the size of the origin's data
InfoSize == Len(sbData) + clipCut

\* The offset SeekToPercent seeks to: int64(float64(s.Info.Size) * percent)
PercentOffset(percent) == (InfoSize * clamp01F64(percent)[1]) \div clamp01F64(percent)[2]

(***************************************************************************)
(* Part 3: the playback controller                                         *)
(***************************************************************************)
\* Most API calls the main caller thread makes.
MaxCalls == 2
\* Largest positive timesToPlay passed to LoopAsync.
MaxN == 2

\* timesToPlay values passed to LoopAsync: -1 stands for every negative count
LoopCounts == {-1} \cup (0..MaxN)
\* The value of owed when no count is kept: the loop is endless (timesToPlay < 0),
\* or a Pause has acted on the sound since LoopAsync was called.
NotCounted == MaxN + 1

VARIABLES
    mpc,         \* main caller thread: where it is
    mctx,        \* main: "api" at top level, "la" inside LoopAsync's drain of a playing sound
    mwl,         \* main: its Wait was called by WaitLoop
    arg,         \* main: timesToPlay of the LoopAsync call in progress
    calls,       \* main: API calls started
    cpc,         \* second caller thread, which calls Pause once: where it is
    tasks,       \* the loop goroutines alive: a bag of [pc: where it is,
                 \* ttp: the timesToPlay it captured]
    \* history, kept for the properties only
    owed,        \* playbacks the latest LoopAsync(n) has yet to start: n less those
                 \* started since its PlayAsync (-1: more than n were started), or
                 \* NotCounted
    pauseDone,   \* a Pause call that overlapped no LoopAsync call has returned, and
                 \* LoopAsync has not acted since
    raced        \* the second thread's Pause in progress has overlapped a LoopAsync call

mainVars == <<mpc, mctx, mwl, arg, calls>>
ctlVars == <<cpc>>
taskVars == <<tasks>>
histVars == <<owed, pauseDone, raced>>
ctrlVars == <<mainVars, ctlVars, taskVars, histVars>>

coreVars == <<sbVars, soundVars, IsLooping, playerVars, ctrlVars>>
vars == <<coreVars, extVars>>

CtrlIdle ==
    /\ mpc = "idle" /\ mctx = "api" /\ mwl = FALSE /\ arg = 0 /\ calls = 0
    /\ cpc = "idle"
    /\ tasks = EmptyBag
    /\ owed = 0
    /\ pauseDone = FALSE /\ raced = FALSE

\* The goroutines alive, and the bag after goroutine t has moved on to be u
LiveTasks == BagToSet(tasks)
TaskBecomes(t, u) == (tasks (-) SetToBag({t})) (+) SetToBag({u})

\* History bookkeeping of a step that may start a playback.
CountPlayback ==
    owed' = IF ~playing /\ playing' /\ owed # NotCounted /\ owed >= 0 THEN owed - 1 ELSE owed

(* Sound.Wait, as the next position of a thread inside it.
   w0: "if !s.IsPlaying() { return }", then sleepTime := s.RemainingTime() / 25
   w1: "for s.Player.IsPlaying() { time.Sleep(sleepTime) }"
   w2: "for s.Player.IsPlaying() { time.Sleep(time.Millisecond) }"
   A sleeping thread takes no step; the sleep's length is not modelled. *)
WaitCanStepIgnoresPlayer(p) == p \in {"w0", "w1", "w2"}

WaitCanStep(p) == p = "w0" \/ (p \in {"w1", "w2"} /\ ~playing)

WaitNext(p, ret) ==
    CASE p = "w0" -> IF ~playing THEN ret ELSE "w1"
      [] p = "w1" -> "w2"
      [] p = "w2" -> ret

\* Where main continues when the Wait or WaitLoop it called returns
MainAfterWait == IF mctx = "la" THEN "la_play" ELSE "idle"

\* ---- main caller thread ----

\* LoopAsync(n): "if timesToPlay == 0 { return }", "if s.IsPlaying() { s.Pause() ..."
MainLoopAsync(n) ==
    /\ mpc = "idle" /\ calls < MaxCalls
    /\ calls' = calls + 1
    /\ arg' = n
    /\ IF n = 0
         THEN UNCHANGED <<mpc, mctx>>
         ELSE IF playing
           THEN mpc' = "p1" /\ mctx' = "la"
           ELSE mpc' = "la_play" /\ UNCHANGED mctx
    /\ raced' = (raced \/ (n # 0 /\ cpc = "p2"))
    /\ UNCHANGED <<mwl, ctlVars, taskVars, owed, pauseDone, IsLooping,
                   playerVars, sbVars, soundVars>>
    /\ UNCHANGED extVars

\* Pause called by main, and its first statement: s.IsLooping = false
MainPause ==
    /\ mpc = "idle" /\ calls < MaxCalls
    /\ calls' = calls + 1
    /\ IsLooping' = FALSE
    /\ mpc' = "p2"
    /\ owed' = NotCounted
    /\ UNCHANGED <<mctx, mwl, arg, ctlVars, taskVars, pauseDone, raced, playerVars,
                   sbVars, soundVars>>
    /\ UNCHANGED extVars

MainWaitLoop ==
    /\ mpc = "idle" /\ calls < MaxCalls
    /\ calls' = calls + 1
    /\ mpc' = "wl"
    /\ UNCHANGED <<mctx, mwl, arg, ctlVars, taskVars, histVars, IsLooping, playerVars,
                   sbVars, soundVars>>
    /\ UNCHANGED extVars

MainWait ==
    /\ mpc = "idle" /\ calls < MaxCalls
    /\ calls' = calls + 1
    /\ mpc' = "w0"
    /\ UNCHANGED <<mctx, mwl, arg, ctlVars, taskVars, histVars, IsLooping, playerVars,
                   sbVars, soundVars>>
    /\ UNCHANGED extVars

\* The Pause that LoopAsync calls on a playing sound, first statement:
\* s.IsLooping = false
MainPauseFlag ==
    /\ mpc = "p1"
    /\ IsLooping' = FALSE
    /\ mpc' = "p2"
    /\ owed' = NotCounted
    /\ UNCHANGED <<mctx, mwl, arg, calls, ctlVars, taskVars,
                   pauseDone, raced, playerVars, sbVars, soundVars>>
    /\ UNCHANGED extVars

\* Pause, second statement: s.Player.Pause()
MainPausePlayer ==
    /\ mpc = "p2"
    /\ PlayerPause
    /\ mpc' = IF mctx = "la" THEN "la_chk" ELSE "idle"
    /\ pauseDone' = (pauseDone \/ mctx = "api")
    /\ owed' = NotCounted
    /\ UNCHANGED <<mctx, mwl, arg, calls, ctlVars, taskVars,
                   raced, IsLooping, sbVars, soundVars>>
    /\ UNCHANGED extVars

\* LoopAsync after its Pause: "if s.IsLooping { s.WaitLoop() } else { s.Wait() }"
MainLoopAsyncDrain ==
    /\ mpc = "la_chk"
    /\ mpc' = IF IsLooping THEN "wl" ELSE "w0"
    /\ UNCHANGED <<mctx, mwl, arg, calls, ctlVars, taskVars, histVars, IsLooping, playerVars,
                   sbVars, soundVars>>
    /\ UNCHANGED extVars

\* WaitLoop: "for s.IsLooping { s.Wait() }"
MainWaitLoopTest ==
    /\ mpc = "wl"
    /\ IF IsLooping
         THEN mpc' = "w0" /\ mwl' = TRUE
         ELSE mpc' = MainAfterWait /\ mwl' = FALSE
    /\ UNCHANGED <<mctx, arg, calls, ctlVars, taskVars, histVars, IsLooping, playerVars, sbVars,
                   soundVars>>
    /\ UNCHANGED extVars

MainInWait ==
    /\ WaitCanStep(mpc)
    /\ mpc' = WaitNext(mpc, IF mwl THEN "wl" ELSE MainAfterWait)
    /\ UNCHANGED <<mctx, mwl, arg, calls, ctlVars, taskVars, histVars, IsLooping, playerVars,
                   sbVars, soundVars>>
    /\ UNCHANGED extVars

\* LoopAsync: s.PlayAsync(), timesToPlay--
MainLoopAsyncPlay ==
    /\ mpc = "la_play"
    /\ PlayerPlay
    /\ mpc' = "la_spawn"
    /\ owed' = IF arg < 0 \/ mctx = "la" THEN NotCounted
               ELSE IF ~playing /\ playing' THEN arg - 1 ELSE arg
    /\ pauseDone' = FALSE
    /\ mctx' = "api"
    /\ UNCHANGED <<mwl, arg, calls, ctlVars, taskVars, raced, IsLooping, soundVars,
                   sbData, sbOp, sbRes, panicked>>
    /\ UNCHANGED extVars

(* The head of the goroutine's loop, where a goroutine holding timesToPlay = t
   goes next: "if timesToPlay < 0 { for { s.Wait() ..." or
   "for timesToPlay > 0 { timesToPlay--; s.Wait() ...", else the final
   "s.IsLooping = false". *)
LoopHead(t) ==
    IF t < 0 THEN [pc |-> "w0", ttp |-> t]
    ELSE IF t > 0 THEN [pc |-> "w0", ttp |-> t - 1]
    ELSE [pc |-> "clr", ttp |-> t]

\* LoopAsync: s.IsLooping = true; go func() { ... }()
MainLoopAsyncSpawn ==
    /\ mpc = "la_spawn"
    /\ IsLooping' = TRUE
    /\ tasks' = tasks (+) SetToBag({LoopHead(IF arg < 0 THEN -1 ELSE arg - 1)})
    /\ mpc' = "idle"
    /\ arg' = 0
    /\ pauseDone' = FALSE
    /\ UNCHANGED <<mctx, mwl, calls, ctlVars, owed,
                   raced, playerVars, sbVars, soundVars>>
    /\ UNCHANGED extVars

\* ---- second caller thread: Pause ----

\* Pause, first statement: s.IsLooping = false
CtlPauseFlag ==
    /\ cpc = "idle"
    /\ IsLooping' = FALSE
    /\ cpc' = "p2"
    /\ owed' = NotCounted
    /\ raced' = (arg # 0)
    /\ UNCHANGED <<mainVars, taskVars, pauseDone, playerVars, sbVars, soundVars>>
    /\ UNCHANGED extVars

\* Pause, second statement: s.Player.Pause()
CtlPausePlayer ==
    /\ cpc = "p2"
    /\ PlayerPause
    /\ cpc' = "done"
    /\ owed' = NotCounted
    /\ pauseDone' = (pauseDone \/ ~raced)
    /\ raced' = FALSE
    /\ UNCHANGED <<mainVars, taskVars, IsLooping, sbVars, soundVars>>
    /\ UNCHANGED extVars

\* ---- the loop goroutine started by LoopAsync ----

TaskInWait(t) ==
    /\ WaitCanStep(t.pc)
    /\ tasks' = TaskBecomes(t, [t EXCEPT !.pc = WaitNext(t.pc, "chk")])
    /\ UNCHANGED <<mainVars, ctlVars, histVars, IsLooping, playerVars, sbVars, soundVars>>
    /\ UNCHANGED extVars

\* "if !s.IsLooping { break }"
TaskCheck(t) ==
    /\ t.pc = "chk"
    /\ tasks' = TaskBecomes(t, [t EXCEPT !.pc = IF ~IsLooping THEN "clr" ELSE "seek1"])
    /\ UNCHANGED <<mainVars, ctlVars, histVars, IsLooping, playerVars, sbVars, soundVars>>
    /\ UNCHANGED extVars

\* SeekToPercent(0): "if !s.IsPlaying() { s.Player.Reset() }"
TaskSeekReset(t) ==
    /\ t.pc = "seek1"
    /\ IF ~playing THEN PlayerReset ELSE UNCHANGED playerVars
    /\ tasks' = TaskBecomes(t, [t EXCEPT !.pc = "seek2"])
    /\ UNCHANGED <<mainVars, ctlVars, histVars, IsLooping, sbVars, soundVars>>
    /\ UNCHANGED extVars

\* SeekToPercent(0): s.Data.Seek(int64(float64(s.Info.Size)*0), io.SeekStart)
TaskSeek(t) ==
    /\ t.pc = "seek2"
    /\ sbPos' = SBSeek(Len(sbData), sbPos, PercentOffset(<<0, 1>>), SeekStart).pos
    /\ tasks' = TaskBecomes(t, [t EXCEPT !.pc = "play"])
    /\ UNCHANGED <<mainVars, ctlVars, histVars, IsLooping, playerVars, soundVars,
                   sbData, sbOp, sbRes, panicked>>
    /\ UNCHANGED extVars

\* s.PlayAsync(), then back to the head of the loop
TaskPlay(t) ==
    /\ t.pc = "play"
    /\ PlayerPlay
    /\ CountPlayback
    /\ tasks' = TaskBecomes(t, LoopHead(t.ttp))
    /\ UNCHANGED <<mainVars, ctlVars, pauseDone, raced,
                   IsLooping, soundVars, sbData, sbOp, sbRes, panicked>>
    /\ UNCHANGED extVars

\* The goroutine's last statement: s.IsLooping = false
TaskClear(t) ==
    /\ t.pc = "clr"
    /\ IsLooping' = FALSE
    /\ tasks' = tasks (-) SetToBag({t})
    /\ UNCHANGED <<mainVars, ctlVars, histVars, playerVars, sbVars, soundVars>>
    /\ UNCHANGED extVars

\* ---- the device player's thread ----

DeviceRead ==
    /\ ~panicked
    /\ DeviceReadSteps
    /\ UNCHANGED <<mainVars, ctlVars, taskVars, histVars, IsLooping, soundVars, sbData, sbOp, sbRes, panicked>>
    /\ UNCHANGED extVars

DevicePlayOut ==
    /\ ~panicked
    /\ DevicePlaysOut
    /\ UNCHANGED <<mainVars, ctlVars, taskVars, histVars, IsLooping, soundVars, sbData, sbOp, sbRes, panicked>>
    /\ UNCHANGED extVars

\* A memory-mode sound of SoundLen bytes, loaded and not yet played
Init ==
    /\ sbData = SoundData /\ sbPos = 0 /\ sbOp = NoOp /\ sbRes = NoRes /\ panicked = FALSE
    /\ SoundIdle
    /\ IsLooping = FALSE
    /\ PlayerIdle
    /\ CtrlIdle
    /\ ExtIdle

Next ==
    \/ \E n \in LoopCounts : MainLoopAsync(n)
    \/ MainPause
    \/ MainWaitLoop
    \/ MainWait
    \/ MainPauseFlag
    \/ MainPausePlayer
    \/ MainLoopAsyncDrain
    \/ MainWaitLoopTest
    \/ MainInWait
    \/ MainLoopAsyncPlay
    \/ MainLoopAsyncSpawn
    \/ CtlPauseFlag
    \/ CtlPausePlayer
    \/ \E t \in LiveTasks : TaskInWait(t)
    \/ \E t \in LiveTasks : TaskCheck(t)
    \/ \E t \in LiveTasks : TaskSeekReset(t)
    \/ \E t \in LiveTasks : TaskSeek(t)
    \/ \E t \in LiveTasks : TaskPlay(t)
    \/ \E t \in LiveTasks : TaskClear(t)
    \/ DeviceRead
    \/ DevicePlayOut

Spec == Init /\ [][Next]_vars

(***************************************************************************)
(* Sound.Close on its own: one caller that plays, pauses and closes, and   *)
(* the device thread                                                       *)
(***************************************************************************)
\* What File.Close and Player.Close may return
FileCloseOutcomes == {NilErr, FileErr}
PlayerCloseOutcomes == {NilErr, PlayerErr}

\* Sound.Close; fdOut and plOut are what File.Close and Player.Close return
\* if Close gets to call them.
CloseCall(fdOut, plOut) ==
    /\ ~panicked
    /\ closeCalls < MaxCloseCalls
    /\ closeCalls' = closeCalls + 1
    /\ IF CloseSkips
         THEN /\ closeLast' = [NoClose EXCEPT !.wasClosed = TRUE]
              /\ UNCHANGED <<dataNil, fileState, fileCloses, playerCloses, playerVars>>
         ELSE LET hasFile == fileState # "none"
                  fdErr   == IF hasFile THEN fdOut ELSE NilErr
              IN  /\ fileState' = IF hasFile THEN "closed" ELSE fileState
                  /\ fileCloses' = IF hasFile THEN fileCloses + 1 ELSE fileCloses
                  /\ dataNil' = TRUE
                  /\ playerCloses' = playerCloses + 1
                  /\ playing' = FALSE /\ buf' = 0 /\ stopped' = FALSE /\ UNCHANGED eof
                  /\ closeLast' = [wasClosed |-> FALSE, fdTried |-> hasFile,
                                   plTried |-> TRUE, fdErr |-> fdErr, plErr |-> plOut,
                                   ret |-> CloseResult(fdErr, plOut)]
    /\ UNCHANGED <<mode, IsLooping, sbVars, ctrlVars>>
    /\ UNCHANGED extVars

\* Sound.PlayAsync
CallPlayAsync ==
    /\ ~panicked
    /\ PlayerPlay
    /\ UNCHANGED <<soundVars, IsLooping, ctrlVars, sbData, sbOp, sbRes, panicked>>
    /\ UNCHANGED extVars

\* Sound.Pause
CallPause ==
    /\ ~panicked
    /\ IsLooping' = FALSE
    /\ PlayerPause
    /\ UNCHANGED <<soundVars, ctrlVars, sbVars>>
    /\ UNCHANGED extVars

\* Sound.SeekToPercent: "if !s.IsPlaying() { s.Player.Reset() }", then
\* s.Data.Seek(offset, io.SeekStart), a call on a nil interface once the sound is closed
CallSeekToPercent(percent) ==
    /\ ~panicked
    /\ IF ~playing THEN PlayerReset ELSE UNCHANGED playerVars
    /\ IF dataNil
         THEN panicked' = TRUE /\ UNCHANGED sbPos
         ELSE sbPos' = SBSeek(Len(sbData), sbPos, PercentOffset(percent), SeekStart).pos
              /\ UNCHANGED panicked
    /\ UNCHANGED <<soundVars, IsLooping, ctrlVars, sbData, sbOp, sbRes>>
    /\ UNCHANGED extVars

\* The percentages tried: below 0, 0, a half, 1, above 1
SeekPercents == {<<-1, 2>>, <<0, 1>>, <<1, 2>>, <<1, 1>>, <<3, 2>>}

\* A sound as NewSoundStreaming (File set) or NewSoundMem (no File) returns it
InitClose ==
    /\ sbData = SoundData /\ sbPos = 0 /\ sbOp = NoOp /\ sbRes = NoRes /\ panicked = FALSE
    /\ mode \in {"Streaming", "Memory"}
    /\ dataNil = FALSE
    /\ fileState = IF mode = "Streaming" THEN "open" ELSE "none"
    /\ fileCloses = 0 /\ playerCloses = 0 /\ closeCalls = 0 /\ closeLast = NoClose
    /\ IsLooping = FALSE
    /\ PlayerIdle
    /\ CtrlIdle
    /\ ExtIdle

NextClose ==
    \/ \E fdOut \in FileCloseOutcomes, plOut \in PlayerCloseOutcomes : CloseCall(fdOut, plOut)
    \/ CallPlayAsync
    \/ CallPause
    \/ \E percent \in SeekPercents : CallSeekToPercent(percent)
    \/ DeviceRead
    \/ DevicePlayOut

SpecClose == InitClose /\ [][NextClose]_vars

(***************************************************************************)
(* SoundBuffer on its own                                                  *)
(***************************************************************************)

\* &SoundBuffer{Data: finalBuf}: the cursor starts at 0
InitBuf ==
    /\ sbData \in DataSets
    /\ sbPos = 0 /\ sbOp = NoOp /\ sbRes = NoRes /\ panicked = FALSE
    /\ SoundIdle
    /\ IsLooping = FALSE
    /\ PlayerIdle
    /\ CtrlIdle
    /\ ExtIdle

otherVars == <<soundVars, IsLooping, playerVars, ctrlVars>>

SBSeekCall(offset, whence) ==
    /\ ~panicked
    /\ LET r == SBSeek(Len(sbData), sbPos, offset, whence) IN
        /\ sbPos' = r.pos
        /\ sbRes' = [n |-> r.ret, err |-> r.err, out |-> <<>>]
    /\ sbOp' = [name |-> "Seek", offset |-> offset, whence |-> whence,
                outLen |-> 0, before |-> sbPos]
    /\ UNCHANGED <<sbData, panicked>>
    /\ UNCHANGED otherVars
    /\ UNCHANGED extVars

SBReadCall(outLen) ==
    /\ ~panicked
    /\ LET r == SBRead(sbData, sbPos, outLen) IN
        /\ sbPos' = r.pos
        /\ sbRes' = [n |-> r.n, err |-> r.err, out |-> r.out]
        /\ panicked' = r.panic
    /\ sbOp' = [name |-> "Read", offset |-> 0, whence |-> 0,
                outLen |-> outLen, before |-> sbPos]
    /\ UNCHANGED sbData
    /\ UNCHANGED otherVars
    /\ UNCHANGED extVars

NextBuf ==
    \/ \E offset \in IntRange, whence \in Whences : SBSeekCall(offset, whence)
    \/ \E outLen \in 0..MaxOutLen : SBReadCall(outLen)

SpecBuf == InitBuf /\ [][NextBuf]_vars

(***************************************************************************)
(* SoundBuffer.Copy and the clip of ClipInMemSoundPercent: several         *)
(* SoundBuffer objects over one byte array                                 *)
(***************************************************************************)
\* sb.Data of the buffer b: the slice backing[lo:hi]
View(b) == SubSeq(backing, b.lo + 1, b.hi)

\* The address of the object Copy returns: "return &SoundBuffer{...}", a new object
CopyTargetAlias(a, fresh) == a

CopyTarget(a, fresh) == fresh

\* The fields of the object Copy returns: Data: sb.Data, Pos: 0
SBCopy(b) == [live |-> TRUE, lo |-> b.lo, hi |-> b.hi, pos |-> 0]

\* int64(float64(len(sb.Data)) * percent), percent already clamped
ClipIndex(len, percent) == (len * clamp01F64(percent)[1]) \div clamp01F64(percent)[2]

\* An address not in use yet
FreshAddr == CHOOSE a \in Addrs : ~heap[a].live /\ \A c \in Addrs : c < a => heap[c].live

HeapHasRoom == \E a \in Addrs : ~heap[a].live

\* sb.Copy()
HeapCopy(a) ==
    /\ ~panicked /\ heap[a].live /\ HeapHasRoom /\ heapCalls < MaxHeapCalls
    /\ LET n == CopyTarget(a, FreshAddr) IN
        /\ heap' = [heap EXCEPT ![n] = SBCopy(heap[a])]
        /\ heapOp' = [name |-> "Copy", on |-> a, new |-> n]
    /\ heapCalls' = heapCalls + 1
    /\ UNCHANGED <<backing, coreVars>>
    /\ UNCHANGED <<streamVars, lateVars>>

\* ClipInMemSoundPercent on the sound holding buffer a: sb := Copy(), then
\* "sb.Data = sb.Data[start:end]", which panics when start > end
HeapClip(a, fromPercent, toPercent) ==
    /\ ~panicked /\ heap[a].live /\ HeapHasRoom /\ heapCalls < MaxHeapCalls
    /\ heapCalls' = heapCalls + 1
    /\ LET n     == CopyTarget(a, FreshAddr)
           c     == SBCopy(heap[a])
           start == ClipIndex(c.hi - c.lo, fromPercent)
           end   == ClipIndex(c.hi - c.lo, toPercent)
       IN  IF start > end
             THEN /\ heap' = [heap EXCEPT ![n] = c]
                  /\ heapOp' = [name |-> "ClipPanic", on |-> a, new |-> n]
                  /\ panicked' = TRUE
                  /\ UNCHANGED <<backing, sbCallVars, soundVars, IsLooping, playerVars, ctrlVars>>
             ELSE /\ heap' = [heap EXCEPT ![n] = [c EXCEPT !.lo = c.lo + start,
                                                          !.hi = c.lo + end]]
                  /\ heapOp' = [name |-> "Clip", on |-> a, new |-> n]
                  /\ UNCHANGED <<backing, coreVars>>
    /\ UNCHANGED <<streamVars, lateVars>>

\* Read on the buffer at address a
HeapRead(a, outLen) ==
    /\ ~panicked /\ heap[a].live /\ heapCalls < MaxHeapCalls
    /\ LET r == SBRead(View(heap[a]), heap[a].pos, outLen) IN
        /\ heap' = [heap EXCEPT ![a].pos = r.pos]
        /\ panicked' = r.panic
    /\ heapOp' = [name |-> "Read", on |-> a, new |-> 0]
    /\ heapCalls' = heapCalls + 1
    /\ UNCHANGED <<backing, sbCallVars, soundVars, IsLooping, playerVars, ctrlVars>>
    /\ UNCHANGED <<streamVars, lateVars>>

\* Seek on the buffer at address a; the model stops following the cursor
\* beyond one past the buffer's data
HeapSeek(a, offset, whence) ==
    /\ ~panicked /\ heap[a].live /\ heapCalls < MaxHeapCalls
    /\ LET r == SBSeek(heap[a].hi - heap[a].lo, heap[a].pos, offset, whence) IN
        /\ r.pos <= heap[a].hi - heap[a].lo + 1
        /\ heap' = [heap EXCEPT ![a].pos = r.pos]
    /\ heapOp' = [name |-> "Seek", on |-> a, new |-> 0]
    /\ heapCalls' = heapCalls + 1
    /\ UNCHANGED <<backing, coreVars>>
    /\ UNCHANGED <<streamVars, lateVars>>

\* The fractions a clip is asked for: below 0, a half, above 1
ClipPercents == {<<-1, 2>>, <<1, 2>>, <<3, 2>>}

InitCopy ==
    /\ sbData = SoundData /\ sbPos = 0 /\ sbOp = NoOp /\ sbRes = NoRes /\ panicked = FALSE
    /\ SoundIdle
    /\ IsLooping = FALSE
    /\ PlayerIdle
    /\ CtrlIdle
    /\ ExtIdle

NextCopy ==
    \/ \E a \in Addrs : HeapCopy(a)
    \/ \E a \in Addrs, f, t \in ClipPercents : HeapClip(a, f, t)
    \/ \E a \in Addrs, outLen \in 0..MaxOutLen : HeapRead(a, outLen)
    \/ \E a \in Addrs, offset \in -1..1, whence \in {SeekStart, SeekCurrent, SeekEnd} :
         HeapSeek(a, offset, whence)

SpecCopy == InitCopy /\ [][NextCopy]_vars

(***************************************************************************)
(* WavStreamer: the device player's thread calls Read, a caller thread     *)
(* calls Seek, statement by statement                                      *)
(***************************************************************************)
\* Dec.Seek(offset, whence) seeks the file under the decoder, at offset pos:
\* the offset asked for, or an error for a negative offset or unknown whence
FileSeek(pos, offset, whence) ==
    LET t == CASE whence = SeekStart -> offset
               [] whence = SeekCurrent -> pos + offset
               [] whence = SeekEnd -> FileLen + offset
               [] OTHER -> -1
    IN  [ok |-> (whence \in {SeekStart, SeekCurrent, SeekEnd} /\ t >= 0), n |-> t]

\* The error of Dec.Seek: r what the seek of the file gives, ioFails whether
\* the file system refuses it
DecSeekErr(r, ioFails) == IF ~r.ok THEN "EINVAL" ELSE IF ioFails THEN "EIO" ELSE "nil"

\* "return n, err" and "return 0, err" in Seek: the error is the caller's
SeekReturnsErr(err) == [NoSeek EXCEPT !.err = err]

\* ws.mutex.Lock() returns only when no thread holds the mutex
MutexFreeAlways == TRUE

MutexFree == mutex = "none"

\* The statements of Read and Seek between Lock and Unlock
ReadCritical == {"read", "pos", "unlock"}
SeekCritical == {"seek1", "rewind", "seek2", "set"}

\* Read is called; the model stops following Pos beyond one past the file
WavReadCall(outLen) ==
    /\ kind = "wav" /\ decOK /\ rpc = "idle"
    /\ wsPos + outLen <= FileLen + 1
    /\ rd' = [outLen |-> outLen, n |-> 0, err |-> "nil"]
    /\ rpc' = "lock"
    /\ UNCHANGED <<kind, skFailed, mutex, wsPos, wsPCMStart, decPos, decOK, spc, sk>>
    /\ UNCHANGED <<coreVars, copyVars, lateVars>>

\* ws.mutex.Lock() in Read
ReadLock ==
    /\ decOK /\ rpc = "lock" /\ MutexFree
    /\ mutex' = "reader"
    /\ rpc' = "read"
    /\ UNCHANGED <<kind, skFailed, wsPos, wsPCMStart, decPos, decOK, rd, spc, sk>>
    /\ UNCHANGED <<coreVars, copyVars, lateVars>>

\* bytesRead, err = ws.Dec.PCMChunk.Read(outBuf): reads the file from where it is
WavReadChunk ==
    /\ kind = "wav" /\ decOK /\ rpc = "read"
    /\ LET left == IF decPos < FileLen THEN FileLen - decPos ELSE 0
           n    == Min(rd.outLen, left)
       IN  /\ rd' = [rd EXCEPT !.n = n,
                               !.err = IF left = 0 /\ rd.outLen > 0 THEN "EOF" ELSE "nil"]
           /\ decPos' = decPos + n
    /\ rpc' = "pos"
    /\ UNCHANGED <<kind, skFailed, mutex, wsPos, wsPCMStart, decOK, spc, sk>>
    /\ UNCHANGED <<coreVars, copyVars, lateVars>>

\* ws.Pos += int64(bytesRead)
WavReadPos ==
    /\ kind = "wav" /\ decOK /\ rpc = "pos"
    /\ wsPos' = wsPos + rd.n
    /\ rpc' = "unlock"
    /\ UNCHANGED <<kind, skFailed, mutex, wsPCMStart, decPos, decOK, rd, spc, sk>>
    /\ UNCHANGED <<coreVars, copyVars, lateVars>>

\* ws.mutex.Unlock() and the return of Read
ReadUnlock ==
    /\ decOK /\ rpc = "unlock"
    /\ mutex' = "none"
    /\ rpc' = "idle"
    /\ rd' = NoRead
    /\ UNCHANGED <<kind, skFailed, wsPos, wsPCMStart, decPos, decOK, spc, sk>>
    /\ UNCHANGED <<coreVars, copyVars, lateVars>>

WavSeekCall(offset, whence) ==
    /\ kind = "wav" /\ decOK /\ spc = "idle"
    /\ sk' = [NoSeek EXCEPT !.offset = offset, !.whence = whence]
    /\ spc' = "lock"
    /\ UNCHANGED <<kind, skFailed, mutex, wsPos, wsPCMStart, decPos, decOK, rpc, rd>>
    /\ UNCHANGED <<coreVars, copyVars, lateVars>>

\* ws.mutex.Lock() in Seek; the stream's state at this point is the state the
\* call starts from
SeekLock ==
    /\ decOK /\ spc = "lock" /\ MutexFree
    /\ mutex' = "seeker"
    /\ sk' = [sk EXCEPT !.pos0 = wsPos, !.dec0 = decPos]
    /\ spc' = "seek1"
    /\ UNCHANGED <<kind, skFailed, wsPos, wsPCMStart, decPos, decOK, rpc, rd>>
    /\ UNCHANGED <<coreVars, copyVars, lateVars>>

\* n, err := ws.Dec.Seek(offset, whence); if err != nil { return n, err };
\* then the test "if n < ws.Pos".  ioFails: the file system refuses the seek.
WavSeekFirst(ioFails) ==
    /\ kind = "wav" /\ decOK /\ spc = "seek1"
    /\ LET r == FileSeek(decPos, sk.offset, sk.whence) IN
        IF DecSeekErr(r, ioFails) # "nil"
          THEN /\ sk' = SeekReturnsErr(DecSeekErr(r, ioFails))
               /\ skFailed' = TRUE
               /\ mutex' = "none"
               /\ spc' = "idle"
               /\ UNCHANGED decPos
          ELSE /\ r.n <= FileLen + 1
               /\ decPos' = r.n
               /\ sk' = [sk EXCEPT !.n = r.n, !.seeks = sk.seeks + 1]
               /\ spc' = IF r.n < wsPos THEN "rewind" ELSE "set"
               /\ UNCHANGED <<mutex, skFailed>>
    /\ UNCHANGED <<kind, wsPos, wsPCMStart, decOK, rpc, rd>>
    /\ UNCHANGED <<coreVars, copyVars, lateVars>>

\* err = ws.Dec.Rewind(); if err != nil { return 0, err }; then
\* "if n < ws.PCMStart { n = ws.PCMStart } else { second seek }".
\* Rewind seeks the file to 0 and reads forward to the PCM data, as
\* NewWavStreamer's FwdToPCM did; it can fail at either step.
WavSeekRewind(outcome) ==
    /\ kind = "wav" /\ decOK /\ spc = "rewind"
    /\ IF outcome # "ok"
         THEN /\ decPos' = IF outcome = "seekFails" THEN decPos ELSE 0
              /\ decOK' = FALSE
              /\ sk' = SeekReturnsErr(outcome)
              /\ skFailed' = TRUE
              /\ mutex' = "none"
              /\ spc' = "idle"
         ELSE /\ decPos' = wsPCMStart
              /\ IF sk.n < wsPCMStart
                   THEN /\ sk' = [sk EXCEPT !.n = wsPCMStart, !.rewinds = sk.rewinds + 1]
                        /\ spc' = "set"
                   ELSE /\ sk' = [sk EXCEPT !.rewinds = sk.rewinds + 1]
                        /\ spc' = "seek2"
              /\ UNCHANGED <<decOK, mutex, skFailed>>
    /\ UNCHANGED <<kind, wsPos, wsPCMStart, rpc, rd>>
    /\ UNCHANGED <<coreVars, copyVars, lateVars>>

\* n, err = ws.Dec.Seek(offset, whence) after the rewind;
\* if err != nil { return n, err }
WavSeekAgainMovesPos(ioFails) ==
    /\ kind = "wav" /\ decOK /\ spc = "seek2"
    /\ LET r == FileSeek(decPos, sk.offset, sk.whence) IN
        IF DecSeekErr(r, ioFails) # "nil"
          THEN /\ sk' = SeekReturnsErr(DecSeekErr(r, ioFails))
               /\ skFailed' = TRUE
               /\ mutex' = "none"
               /\ spc' = "idle"
               /\ wsPos' = decPos
               /\ UNCHANGED decPos
          ELSE /\ decPos' = r.n
               /\ sk' = [sk EXCEPT !.n = r.n, !.seeks = sk.seeks + 1]
               /\ spc' = "set"
               /\ UNCHANGED <<mutex, skFailed, wsPos>>
    /\ UNCHANGED <<kind, wsPCMStart, decOK, rpc, rd>>
    /\ UNCHANGED <<coreVars, copyVars, lateVars>>

WavSeekAgain(ioFails) ==
    /\ kind = "wav" /\ decOK /\ spc = "seek2"
    /\ LET r == FileSeek(decPos, sk.offset, sk.whence) IN
        IF DecSeekErr(r, ioFails) # "nil"
          THEN /\ sk' = SeekReturnsErr(DecSeekErr(r, ioFails))
               /\ skFailed' = TRUE
               /\ mutex' = "none"
               /\ spc' = "idle"
               /\ UNCHANGED decPos
          ELSE /\ decPos' = r.n
               /\ sk' = [sk EXCEPT !.n = r.n, !.seeks = sk.seeks + 1]
               /\ spc' = "set"
               /\ UNCHANGED <<mutex, skFailed>>
    /\ UNCHANGED <<kind, wsPos, wsPCMStart, decOK, rpc, rd>>
    /\ UNCHANGED <<coreVars, copyVars, lateVars>>

\* ws.Pos = n; return n, err; the deferred ws.mutex.Unlock()
WavSeekSetKeepsLock ==
    /\ kind = "wav" /\ decOK /\ spc = "set"
    /\ wsPos' = sk.n
    /\ sk' = NoSeek
    /\ spc' = "idle"
    /\ UNCHANGED <<kind, skFailed, mutex, wsPCMStart, decPos, decOK, rpc, rd>>
    /\ UNCHANGED <<coreVars, copyVars, lateVars>>

WavSeekSet ==
    /\ kind = "wav" /\ decOK /\ spc = "set"
    /\ wsPos' = sk.n
    /\ sk' = NoSeek
    /\ mutex' = "none"
    /\ spc' = "idle"
    /\ UNCHANGED <<kind, skFailed, wsPCMStart, decPos, decOK, rpc, rd>>
    /\ UNCHANGED <<coreVars, copyVars, lateVars>>

\* BytesPerSample of the Ogg stream (mono, 16 bit) and its length in samples
OggBytesPerSample == 2
OggLen == PCMLen

\* Go's integer division, which truncates toward zero
TruncDiv(a, b) == IF a >= 0 THEN a \div b ELSE 0 - ((0 - a) \div b)

OggReadCall(outLen) ==
    /\ kind = "ogg" /\ rpc = "idle"
    /\ rd' = [outLen |-> outLen, n |-> 0, err |-> "nil"]
    /\ rpc' = "lock"
    /\ UNCHANGED <<kind, skFailed, mutex, wsPos, wsPCMStart, decPos, decOK, spc, sk>>
    /\ UNCHANGED <<coreVars, copyVars, lateVars>>

\* readerBuf := make([]float32, len(outBuf)/2); floatsRead, err = ws.Dec.Read(readerBuf);
\* F32ToUnsignedPCM16(...): the decoder moves on by the samples it gave
OggReadChunk ==
    /\ kind = "ogg" /\ rpc = "read"
    /\ LET want == rd.outLen \div 2
           left == OggLen - decPos
           n    == Min(want, left)
       IN  /\ rd' = [rd EXCEPT !.n = n * 2,
                               !.err = IF left = 0 /\ want > 0 THEN "EOF" ELSE "nil"]
           /\ decPos' = decPos + n
    /\ rpc' = "unlock"
    /\ UNCHANGED <<kind, skFailed, mutex, wsPos, wsPCMStart, decOK, spc, sk>>
    /\ UNCHANGED <<coreVars, copyVars, lateVars>>

OggSeekCall(offset, whence) ==
    /\ kind = "ogg" /\ spc = "idle"
    /\ sk' = [NoSeek EXCEPT !.offset = offset, !.whence = whence]
    /\ spc' = "lock"
    /\ UNCHANGED <<kind, skFailed, mutex, wsPos, wsPCMStart, decPos, decOK, rpc, rd>>
    /\ UNCHANGED <<coreVars, copyVars, lateVars>>

\* offset /= BytesPerSample; the switch on whence with Dec.SetPosition, which
\* refuses a position outside the stream (or fails reading the file: ioFails)
\* and then leaves the position alone; an unknown whence sets nothing; the
\* return and the deferred ws.mutex.Unlock()
OggSeekSet(ioFails) ==
    /\ kind = "ogg" /\ spc = "seek1"
    /\ LET off == TruncDiv(sk.offset, OggBytesPerSample)
           t   == CASE sk.whence = SeekStart -> off
                    [] sk.whence = SeekCurrent -> decPos + off
                    [] sk.whence = SeekEnd -> OggLen + off
                    [] OTHER -> decPos
           known == sk.whence \in {SeekStart, SeekCurrent, SeekEnd}
           ok == ~known \/ (~ioFails /\ t >= 0 /\ t <= OggLen)
       IN  /\ decPos' = IF known /\ ok THEN t ELSE decPos
           /\ skFailed' = (skFailed \/ ~ok)
    /\ sk' = NoSeek
    /\ mutex' = "none"
    /\ spc' = "idle"
    /\ UNCHANGED <<kind, wsPos, wsPCMStart, decOK, rpc, rd>>
    /\ UNCHANGED <<coreVars, copyVars, lateVars>>

InitStream ==
    /\ sbData = SoundData /\ sbPos = 0 /\ sbOp = NoOp /\ sbRes = NoRes /\ panicked = FALSE
    /\ SoundIdle
    /\ IsLooping = FALSE
    /\ PlayerIdle
    /\ CtrlIdle
    /\ CopyIdle
    /\ LateIdle
    /\ \E k \in {"wav", "ogg"} : StreamNew(k)

SeekOffsets == (0 - FileLen)..(FileLen + 1)
RewindOutcomes == {"ok", "seekFails", "parseFails"}

NextStream ==
    \/ \E outLen \in 0..MaxOutLen : WavReadCall(outLen)
    \/ ReadLock
    \/ WavReadChunk
    \/ WavReadPos
    \/ ReadUnlock
    \/ \E offset \in SeekOffsets, whence \in {SeekStart, SeekCurrent, SeekEnd, 3} :
         WavSeekCall(offset, whence)
    \/ SeekLock
    \/ \E ioFails \in BOOLEAN : WavSeekFirst(ioFails)
    \/ \E outcome \in RewindOutcomes : WavSeekRewind(outcome)
    \/ \E ioFails \in BOOLEAN : WavSeekAgain(ioFails)
    \/ WavSeekSet
    \/ \E outLen \in 0..MaxOutLen : OggReadCall(outLen)
    \/ OggReadChunk
    \/ \E offset \in SeekOffsets, whence \in {SeekStart, SeekCurrent, SeekEnd, 3} :
         OggSeekCall(offset, whence)
    \/ \E ioFails \in BOOLEAN : OggSeekSet(ioFails)

SpecStream == InitStream /\ [][NextStream]_vars

(***************************************************************************)
(* SoundBuffer under two threads: the device player's thread calls Read    *)
(* while a caller thread calls Seek (as SeekToPercent does on a playing    *)
(* sound), statement by statement.  Pos is a plain field read and written  *)
(* by both, so each read and each write of it is a step of its own.        *)
(***************************************************************************)
\* Sound.PlayAsync: Player.Play() sets the device thread reading the source
RacePlay ==
    /\ ~panicked
    /\ playing' = TRUE /\ stopped' = FALSE
    /\ UNCHANGED <<buf, eof>>
    /\ UNCHANGED <<sbVars, raceVars>>
    /\ UNCHANGED <<soundVars, IsLooping, ctrlVars, copyVars, streamVars, convVars, timeVars, apiVars>>

\* Sound.Pause
RacePause ==
    /\ ~panicked
    /\ IsLooping' = FALSE
    /\ PlayerPause
    /\ UNCHANGED <<sbVars, raceVars>>
    /\ UNCHANGED <<soundVars, ctrlVars, copyVars, streamVars, convVars, timeVars, apiVars>>

\* The device thread of a playing sound calls Read(outBuf)
BufReadCall(outLen) ==
    /\ ~panicked /\ bufRd.pc = "idle"
    /\ playing
    /\ bufRd' = [NoBufRd EXCEPT !.pc = "copy", !.outLen = outLen]
    /\ bufPos0' = IF bufSk.pc = "idle" THEN sbPos ELSE bufPos0
    /\ UNCHANGED <<sbVars, bufSk>>
    /\ UNCHANGED <<soundVars, IsLooping, playerVars, ctrlVars, copyVars, streamVars, convVars, timeVars, apiVars>>

\* bytesRead = copy(outBuf, sb.Data[sb.Pos:]); if bytesRead == 0 { return 0, io.EOF }
BufReadCopy ==
    /\ ~panicked /\ bufRd.pc = "copy"
    /\ LET r == SBRead(sbData, sbPos, bufRd.outLen) IN
        /\ panicked' = r.panic
        /\ bufRd' = [bufRd EXCEPT !.from = sbPos, !.n = r.n, !.err = r.err,
                                  !.pc = IF r.n = 0 THEN "done" ELSE "load"]
    /\ UNCHANGED <<sbCallVars, bufSk, bufPos0>>
    /\ UNCHANGED <<soundVars, IsLooping, playerVars, ctrlVars, copyVars, streamVars, convVars, timeVars, apiVars>>

\* sb.Pos += int64(bytesRead): the read of Pos
BufReadLoad ==
    /\ ~panicked /\ bufRd.pc = "load"
    /\ bufRd' = [bufRd EXCEPT !.tmp = sbPos, !.pc = "store"]
    /\ UNCHANGED <<sbVars, bufSk, bufPos0>>
    /\ UNCHANGED <<soundVars, IsLooping, playerVars, ctrlVars, copyVars, streamVars, convVars, timeVars, apiVars>>

\* sb.Pos += int64(bytesRead): the write of Pos; return bytesRead, nil
BufReadStore ==
    /\ ~panicked /\ bufRd.pc = "store"
    /\ sbPos' = bufRd.tmp + bufRd.n
    /\ bufRd' = [bufRd EXCEPT !.pc = "done"]
    /\ UNCHANGED <<sbData, sbOp, sbRes, panicked, bufSk, bufPos0>>
    /\ UNCHANGED <<soundVars, IsLooping, playerVars, ctrlVars, copyVars, streamVars, convVars, timeVars, apiVars>>

\* A caller thread calls Seek(offset, whence)
BufSeekCall(offset, whence) ==
    /\ ~panicked /\ bufSk.pc = "idle"
    /\ bufSk' = [NoBufSk EXCEPT !.pc = "load", !.offset = offset, !.whence = whence]
    /\ bufPos0' = IF bufRd.pc = "idle" THEN sbPos ELSE bufPos0
    /\ UNCHANGED <<sbVars, bufRd>>
    /\ UNCHANGED <<soundVars, IsLooping, playerVars, ctrlVars, copyVars, streamVars, convVars, timeVars, apiVars>>

\* Sound.SeekToPercent up to its call of Seek: "if !s.IsPlaying() {
\* s.Player.Reset() }", the clamp, and s.Data.Seek(offset, io.SeekStart) called
BufSeekToPercent(percent) ==
    /\ ~panicked /\ bufSk.pc = "idle"
    /\ IF ~playing THEN PlayerReset ELSE UNCHANGED playerVars
    /\ bufSk' = [NoBufSk EXCEPT !.pc = "load", !.via = "SeekToPercent",
                                !.offset = PercentOffset(percent), !.whence = SeekStart]
    /\ bufPos0' = IF bufRd.pc = "idle" THEN sbPos ELSE bufPos0
    /\ UNCHANGED <<sbVars, bufRd>>
    /\ UNCHANGED <<soundVars, IsLooping, ctrlVars, copyVars, streamVars, convVars, timeVars, apiVars>>

\* newPos := sb.Pos
BufSeekLoad ==
    /\ ~panicked /\ bufSk.pc = "load"
    /\ bufSk' = [bufSk EXCEPT !.newPos = sbPos, !.pc = "store"]
    /\ UNCHANGED <<sbVars, bufRd, bufPos0>>
    /\ UNCHANGED <<soundVars, IsLooping, playerVars, ctrlVars, copyVars, streamVars, convVars, timeVars, apiVars>>

\* The switch on whence, the test "newPos < 0" and "sb.Pos = newPos"
BufSeekStore ==
    /\ ~panicked /\ bufSk.pc = "store"
    /\ LET r == SBSeek(Len(sbData), bufSk.newPos, bufSk.offset, bufSk.whence) IN
        IF r.err # "nil"
          THEN /\ bufSk' = [bufSk EXCEPT !.ret = 0, !.err = r.err, !.pc = "done"]
               /\ UNCHANGED sbPos
          ELSE /\ bufSk' = [bufSk EXCEPT !.newPos = r.pos, !.pc = "ret"]
               /\ sbPos' = r.pos
    /\ UNCHANGED <<sbData, sbOp, sbRes, panicked, bufRd, bufPos0>>
    /\ UNCHANGED <<soundVars, IsLooping, playerVars, ctrlVars, copyVars, streamVars, convVars, timeVars, apiVars>>

\* return sb.Pos, nil: the value is read from the field again (reload) or is
\* the value just written, as the compiler chose
BufSeekRet(reload) ==
    /\ ~panicked /\ bufSk.pc = "ret"
    /\ bufSk' = [bufSk EXCEPT !.ret = IF reload THEN sbPos ELSE bufSk.newPos, !.pc = "done"]
    /\ UNCHANGED <<sbVars, bufRd, bufPos0>>
    /\ UNCHANGED <<soundVars, IsLooping, playerVars, ctrlVars, copyVars, streamVars, convVars, timeVars, apiVars>>

\* Both calls have returned; the threads go on to their next calls.  The model
\* stops following a cursor more than one past the end of the data.
BufNextCalls ==
    /\ ~panicked /\ bufRd.pc = "done" /\ bufSk.pc = "done"
    /\ sbPos <= Len(sbData) + 1
    /\ bufRd' = NoBufRd /\ bufSk' = NoBufSk
    /\ bufPos0' = 0
    /\ UNCHANGED sbVars
    /\ UNCHANGED <<soundVars, IsLooping, playerVars, ctrlVars, copyVars, streamVars, convVars, timeVars, apiVars>>

InitRace ==
    /\ sbData = SoundData /\ sbPos = 0 /\ sbOp = NoOp /\ sbRes = NoRes /\ panicked = FALSE
    /\ SoundIdle
    /\ IsLooping = FALSE
    /\ PlayerIdle
    /\ CtrlIdle
    /\ ExtIdle

NextRace ==
    \/ RacePlay
    \/ RacePause
    \/ \E percent \in SeekPercents : BufSeekToPercent(percent)
    \/ \E outLen \in 0..MaxOutLen : BufReadCall(outLen)
    \/ BufReadCopy
    \/ BufReadLoad
    \/ BufReadStore
    \/ \E offset \in -1..1, whence \in {SeekStart, SeekCurrent, SeekEnd, 3} :
         BufSeekCall(offset, whence)
    \/ BufSeekLoad
    \/ BufSeekStore
    \/ \E reload \in BOOLEAN : BufSeekRet(reload)
    \/ BufNextCalls

SpecRace == InitRace /\ [][NextRace]_vars

(***************************************************************************)
(* Play time and byte count: Init, ByteCountFromPlayTime and               *)
(* PlayTimeFromByteCount.  The float64 arithmetic of PlayTimeFromByteCount *)
(* is computed bit by bit: a float64 is [zero, bits, exp], bits being the  *)
(* MantBits bits of its mantissa from the leading 1 down, and its value    *)
(* 0.bits (binary) times 2^exp.                                            *)
(***************************************************************************)
SampleRates == {44100, 48000}
SoundChannelCounts == {1, 2}
SoundBitDepths == {1, 2}

\* Mantissa bits of a float64 (the implicit leading 1 included)
MantBits == 53

BytesPerSample == ChanCount * BitDepth
BytesPerSecond == BytesPerSample * SamplingRate

\* The w lowest binary digits of n >= 0, highest first
Bits(n, w) == [i \in 1..w |-> (n \div Pow2(w - i)) % 2]

\* The number of binary digits of 0 <= n < 2^30 (0 for 0)
BitLen(n) == CHOOSE k \in 0..30 : n < Pow2(k) /\ (k = 0 \/ n >= Pow2(k - 1))

\* The binary digits of n >= 0, highest first (none for 0)
BinDigits(n) == Bits(n, BitLen(n))

\* The number a sequence of at most four binary digits stands for
Nibble(s) ==
    LET n == Len(s) IN
        (IF n >= 1 THEN s[n] ELSE 0) + (IF n >= 2 THEN 2 * s[n - 1] ELSE 0)
      + (IF n >= 3 THEN 4 * s[n - 2] ELSE 0) + (IF n >= 4 THEN 8 * s[n - 3] ELSE 0)

\* The number a sequence of binary digits stands for
RECURSIVE BitsValue(_)
BitsValue(s) ==
    IF Len(s) <= 4 THEN Nibble(s)
    ELSE 16 * BitsValue(SubSeq(s, 1, Len(s) - 4)) + Nibble(SubSeq(s, Len(s) - 3, Len(s)))

\* The next k binary digits of the fraction r / d (0 <= r < d < 2^18), and
\* what remains, twelve digits at a time
RECURSIVE DivDigits(_, _, _)
DivDigits(r, d, k) ==
    IF k = 0 THEN [q |-> <<>>, r |-> r]
    ELSE LET w    == Min(k, 12)
             n    == r * Pow2(w)
             rest == DivDigits(n % d, d, k - w)
         IN  [q |-> Bits(n \div d, w) \o rest.q, r |-> rest.r]

\* The number of zeros before the first 1 in the binary fraction r / d, 0 < r < d
LeadingZeros(r, d) == BitLen((d + r - 1) \div r - 1) - 1

\* s + 1 on a sequence of binary digits, and the carry out of it
AddOne(s) ==
    IF \A i \in 1..Len(s) : s[i] = 1
      THEN [q |-> [i \in 1..Len(s) |-> 0], c |-> 1]
      ELSE LET j == CHOOSE i \in 1..Len(s) :
                      s[i] = 0 /\ \A k \in (i + 1)..Len(s) : s[k] = 1
           IN  [q |-> [i \in 1..Len(s) |-> IF i < j THEN s[i] ELSE IF i = j THEN 1 ELSE 0],
                c |-> 0]

\* The digits of s * c + carry for a small c >= 2, highest first, twelve
\* digits of s at a time
RECURSIVE MulDigits(_, _, _)
MulDigits(s, c, carry) ==
    IF s = <<>> THEN BinDigits(carry)
    ELSE LET w == Min(Len(s), 12)
             t == BitsValue(SubSeq(s, Len(s) - w + 1, Len(s))) * c + carry
         IN  MulDigits(SubSeq(s, 1, Len(s) - w), c, t \div Pow2(w)) \o Bits(t % Pow2(w), w)

F64Zero == [zero |-> TRUE, bits |-> <<>>, exp |-> 0]

\* The float64 of mantissa bits and exponent exp, rounded up by one unit in
\* the last place when up
F64Round(bits, exp, up) ==
    IF ~up THEN [zero |-> FALSE, bits |-> bits, exp |-> exp]
    ELSE IF AddOne(bits).c = 0 THEN [zero |-> FALSE, bits |-> AddOne(bits).q, exp |-> exp]
    ELSE [zero |-> FALSE, bits |-> <<1>> \o [i \in 1..(MantBits - 1) |-> 0], exp |-> exp + 1]

\* float64(a) / float64(d) for integers a >= 0 and d > 0 that a float64 holds
\* exactly: the quotient rounded to nearest, ties to even
F64Quot(a, d) ==
    IF a = 0 THEN F64Zero
    ELSE LET ib == BinDigits(a \div d)
             r0 == a % d
             z  == IF ib = <<>> THEN LeadingZeros(r0, d) ELSE 0
             dd == DivDigits(r0 * Pow2(z), d, MantBits - Len(ib))
             bits == ib \o dd.q
         IN  F64Round(bits, IF ib = <<>> THEN 0 - z ELSE Len(ib),
                      2 * dd.r > d \/ (2 * dd.r = d /\ bits[MantBits] = 1))

\* x * float64(c) for a small integer c >= 2, rounded to nearest, ties to even
F64Times(x, c) ==
    IF x.zero THEN F64Zero
    ELSE LET p    == MulDigits(x.bits, c, 0)
             drop == Len(p) - MantBits
             kept == SubSeq(p, 1, MantBits)
             low  == BitsValue(SubSeq(p, MantBits + 1, Len(p)))
             half == Pow2(drop - 1)
         IN  F64Round(kept, x.exp + drop,
                      low > half \/ (low = half /\ kept[MantBits] = 1))

\* The conversion of a float64 to an integer, which drops the fraction
F64Trunc(x) ==
    IF x.zero \/ x.exp <= 0 THEN 0 ELSE BitsValue(SubSeq(x.bits, 1, x.exp))

\* PlayTimeFromByteCount, in milliseconds; the arithmetic of a negative count
\* is that of its absolute value with the sign kept
PlayTimeFromByteCount(byteCount) ==
    IF byteCount >= 0
      THEN F64Trunc(F64Times(F64Quot(byteCount, BytesPerSecond), 1000))
      ELSE 0 - F64Trunc(F64Times(F64Quot(0 - byteCount, BytesPerSecond), 1000))

\* ByteCountFromPlayTime of a time of ms milliseconds (Go's integer division
\* truncates toward zero)
ByteCountFromPlayTime(ms) == TruncDiv(ms * BytesPerSecond, 1000)

\* wavy.Init(sr, chanCount, bitDepth)
WavyInit(sr, chanCount, bitDepth) ==
    /\ conv.pc = "start"
    /\ SamplingRate' = sr /\ ChanCount' = chanCount /\ BitDepth' = bitDepth
    /\ conv' = [conv EXCEPT !.pc = "ready"]
    /\ UNCHANGED <<coreVars, copyVars, streamVars, raceVars, timeVars, apiVars>>

\* b := ByteCountFromPlayTime(t)
CallByteCount(ms) ==
    /\ conv.pc = "ready"
    /\ conv' = [conv EXCEPT !.pc = "b", !.t = ms, !.b = ByteCountFromPlayTime(ms)]
    /\ UNCHANGED <<SamplingRate, ChanCount, BitDepth>>
    /\ UNCHANGED <<coreVars, copyVars, streamVars, raceVars, timeVars, apiVars>>

\* t2 := PlayTimeFromByteCount(b)
CallPlayTime ==
    /\ conv.pc = "b"
    /\ conv' = [conv EXCEPT !.pc = "t2", !.t2 = PlayTimeFromByteCount(conv.b)]
    /\ UNCHANGED <<SamplingRate, ChanCount, BitDepth>>
    /\ UNCHANGED <<coreVars, copyVars, streamVars, raceVars, timeVars, apiVars>>

\* b2 := ByteCountFromPlayTime(t2)
CallByteCountAgain ==
    /\ conv.pc = "t2"
    /\ conv' = [conv EXCEPT !.pc = "b2", !.b2 = ByteCountFromPlayTime(conv.t2)]
    /\ UNCHANGED <<SamplingRate, ChanCount, BitDepth>>
    /\ UNCHANGED <<coreVars, copyVars, streamVars, raceVars, timeVars, apiVars>>

InitConv ==
    /\ sbData = SoundData /\ sbPos = 0 /\ sbOp = NoOp /\ sbRes = NoRes /\ panicked = FALSE
    /\ SoundIdle
    /\ IsLooping = FALSE
    /\ PlayerIdle
    /\ CtrlIdle
    /\ ExtIdle

NextConv ==
    \/ \E sr \in SampleRates, chanCount \in SoundChannelCounts, bitDepth \in SoundBitDepths :
         WavyInit(sr, chanCount, bitDepth)
    \/ \E ms \in 0..MaxMs : CallByteCount(ms)
    \/ CallPlayTime
    \/ CallByteCountAgain

SpecConv == InitConv /\ [][NextConv]_vars

(***************************************************************************)
(* TotalTime and RemainingTime of a memory sound that is played, paused    *)
(* and closed                                                              *)
(***************************************************************************)
\* Sound.TotalTime
TotalTime == PlayTimeFromByteCount(InfoSize)

\* The early return of RemainingTime: "if s.IsClosed() { return 0 }"
RemainingTimeSkipsNever == FALSE

RemainingTimeSkips == IsClosed

\* The byte count RemainingTime converts: "currBytePos -= unplayed", then
\* "s.Info.Size - currBytePos"
RemainingBytesLessBuffer(size, currBytePos, unplayed) == size - currBytePos - unplayed

RemainingBytes(size, currBytePos, unplayed) == size - (currBytePos - unplayed)

\* Sound.TotalTime called
CallTotalTime ==
    /\ ~panicked
    /\ tot' = IF IsClosed THEN [tot EXCEPT !.closed = TotalTime]
                          ELSE [tot EXCEPT !.open = TotalTime]
    /\ UNCHANGED rem
    /\ UNCHANGED <<coreVars, copyVars, streamVars, raceVars, convVars, apiVars>>

\* Sound.RemainingTime called: the early return, or s.Data.Seek(0, io.SeekCurrent)
\* (a call on a nil interface once the sound is closed; on a SoundBuffer it
\* returns the cursor and leaves it where it is), s.Player.UnplayedBufferSize()
\* and the conversion
CallRemainingTime ==
    /\ ~panicked
    /\ IF RemainingTimeSkips
         THEN /\ rem' = [NoRem EXCEPT !.called = TRUE, !.turn = ~rem.turn, !.closed = IsClosed]
              /\ UNCHANGED panicked
         ELSE IF dataNil
           THEN /\ panicked' = TRUE
                /\ rem' = [NoRem EXCEPT !.called = TRUE, !.turn = ~rem.turn,
                                        !.closed = IsClosed, !.touched = TRUE]
           ELSE LET currBytePos == sbPos IN
                /\ rem' = [called |-> TRUE, turn |-> ~rem.turn, closed |-> IsClosed,
                           touched |-> TRUE,
                           unplayed |-> buf,
                           ret |-> PlayTimeFromByteCount(
                                       RemainingBytes(InfoSize, currBytePos, buf))]
                /\ UNCHANGED panicked
    /\ UNCHANGED <<sbCallVars, tot>>
    /\ UNCHANGED <<soundVars, IsLooping, playerVars, ctrlVars, copyVars, streamVars, raceVars, convVars, apiVars>>

\* A memory sound of TimeLen bytes as NewSoundMem returns it, after Init has
\* set a legal format in which the sound lasts a millisecond or more
InitTime ==
    /\ sbData = [i \in 1..TimeLen |-> 1]
    /\ sbPos = 0 /\ sbOp = NoOp /\ sbRes = NoRes /\ panicked = FALSE
    /\ SoundIdle
    /\ IsLooping = FALSE
    /\ PlayerIdle
    /\ CtrlIdle
    /\ CopyIdle /\ StreamIdle /\ RaceIdle /\ TimeIdle /\ ApiIdle
    /\ SamplingRate \in SampleRates
    /\ ChanCount \in SoundChannelCounts
    /\ BitDepth \in SoundBitDepths
    /\ BytesPerSecond <= TimeLen * 1000
    /\ conv = [NoConv EXCEPT !.pc = "ready"]

NextTime ==
    \/ CallTotalTime
    \/ CallRemainingTime
    \/ CallPlayAsync
    \/ CallPause
    \/ \E fdOut \in FileCloseOutcomes, plOut \in PlayerCloseOutcomes : CloseCall(fdOut, plOut)
    \/ DeviceRead
    \/ DevicePlayOut

SpecTime == InitTime /\ [][NextTime]_vars

(***************************************************************************)
(* SetVolume, SeekToPercent and SeekToTime called by one thread on a       *)
(* memory sound that is played, looped and paused, with the device thread  *)
(***************************************************************************)
\* The test of SetVolume: "if newVol < 0 || newVol > 1 { panic(...) }"
VolumeRejectedBelowOnly(newVol) == newVol[1] < 0

VolumeRejected(newVol) == newVol[1] < 0 \/ newVol[1] > newVol[2]

\* Sound.SetVolume(newVol)
ApiSetVolume(newVol) ==
    /\ ~panicked /\ mpc = "idle"
    /\ IF VolumeRejected(newVol)
         THEN panicked' = TRUE /\ UNCHANGED volume
         ELSE volume' = newVol /\ UNCHANGED panicked
    /\ api' = [turn |-> ~api.turn, name |-> "SetVolume", arg |-> newVol,
               reset |-> FALSE, offset |-> -1]
    /\ UNCHANGED <<players, clipCut, load, snd>>
    /\ UNCHANGED <<sbCallVars, soundVars, IsLooping, playerVars, ctrlVars>>
    /\ UNCHANGED <<copyVars, streamVars, raceVars, convVars, timeVars>>

\* The offset SeekToTime seeks to: byteCount := ByteCountFromPlayTime(t), then
\* "if byteCount < 0 { byteCount = 0 } else if byteCount > s.Info.Size { ... }"
TimeOffsetNoCeiling(ms) ==
    LET byteCount == ByteCountFromPlayTime(ms) IN
    IF byteCount < 0 THEN 0 ELSE byteCount

TimeOffset(ms) ==
    LET byteCount == ByteCountFromPlayTime(ms) IN
    IF byteCount < 0 THEN 0
    ELSE IF byteCount > InfoSize THEN InfoSize
    ELSE byteCount

\* Whether SeekToPercent and SeekToTime reset the player first:
\* "if !s.IsPlaying() { s.Player.Reset() }"
SeekResetsAlways == TRUE

SeekResets == ~playing

\* The body SeekToPercent and SeekToTime share: the reset, then
\* s.Data.Seek(offset, io.SeekStart), a call on a nil interface once the sound
\* is closed
ApiSeek(name, given, offset) ==
    /\ ~panicked /\ mpc = "idle"
    /\ IF SeekResets THEN PlayerReset ELSE UNCHANGED playerVars
    /\ IF dataNil
         THEN panicked' = TRUE /\ UNCHANGED sbPos
         ELSE sbPos' = SBSeek(Len(sbData), sbPos, offset, SeekStart).pos
              /\ UNCHANGED panicked
    /\ api' = [turn |-> ~api.turn, name |-> name, arg |-> given,
               reset |-> SeekResets, offset |-> offset]
    /\ UNCHANGED <<volume, players, clipCut, load, snd>>
    /\ UNCHANGED <<soundVars, IsLooping, ctrlVars, sbData, sbOp, sbRes>>
    /\ UNCHANGED <<copyVars, streamVars, raceVars, convVars, timeVars>>

\* Sound.SeekToPercent(percent)
ApiSeekToPercent(percent) == ApiSeek("SeekToPercent", percent, PercentOffset(percent))

\* Sound.SeekToTime(t), t a whole number of milliseconds
ApiSeekToTime(ms) == ApiSeek("SeekToTime", <<ms, 1>>, TimeOffset(ms))

\* LoopAsync(-1) called on a sound that is not playing, up to its return:
\* s.PlayAsync(), s.IsLooping = true, go func() {...}; the goroutine it starts
\* is not scheduled in this specification
ApiLoopForever ==
    /\ ~panicked /\ mpc = "idle"
    /\ ~playing /\ tasks = EmptyBag
    /\ PlayerPlay
    /\ IsLooping' = TRUE
    /\ tasks' = tasks (+) SetToBag({LoopHead(-1)})
    /\ UNCHANGED <<mainVars, ctlVars, histVars, soundVars, sbData, sbOp, sbRes, panicked>>
    /\ UNCHANGED extVars

\* The volumes and the times (in milliseconds) tried
Volumes == {<<-1, 2>>, <<0, 1>>, <<1, 2>>, <<1, 1>>, <<3, 2>>}
SeekTimes == {-1, 0, 1, 2}

\* A memory sound of TimeLen bytes, as in InitTime
InitApi == InitTime

NextApi ==
    \/ \E newVol \in Volumes : ApiSetVolume(newVol)
    \/ \E percent \in SeekPercents : ApiSeekToPercent(percent)
    \/ \E ms \in SeekTimes : ApiSeekToTime(ms)
    \/ ApiLoopForever
    \/ CallPlayAsync
    \/ CallPause
    \/ DeviceRead
    \/ DevicePlayOut

SpecApi == InitApi /\ [][NextApi]_vars

(***************************************************************************)
(* CopyInMemSound and ClipInMemSoundPercent called on a streaming or a     *)
(* memory sound and on the sounds they return                              *)
(***************************************************************************)
\* The test both begin with: "if s.Info.Mode != SoundMode_Memory { panic(...) }".
\* The sounds they return carry the origin's Info, and so its mode.
ModeRejectedNever == FALSE

ModeRejected == mode # "Memory"

\* The sounds there are: the loaded one (a streaming sound has no SoundBuffer;
\* it stands at address 1) and those whose buffer is on the heap
SoundAt(a) == IF mode = "Memory" THEN heap[a].live ELSE a = 1

\* What a call on the sounds leaves alone
DeriveKeeps ==
    /\ UNCHANGED <<backing, volume, clipCut, api, load>>
    /\ UNCHANGED <<sbCallVars, soundVars, IsLooping, playerVars, ctrlVars>>
    /\ UNCHANGED <<streamVars, raceVars, convVars, timeVars>>

\* The Sound both return: "Player: p, File: nil, Data: sb, Info: s.Info", after
\* "p := Ctx.NewPlayer(sb)" and "p.SetVolume(s.Volume())"; IsLooping is not set
DerivedVolume(origin) == origin.vol

DerivedSound(origin) ==
    [size |-> origin.size, vol |-> DerivedVolume(origin), looping |-> FALSE,
     player |-> players + 1]

\* CopyInMemSound(s), s the sound at a: the test, sb := Copy(),
\* p := Ctx.NewPlayer(sb), p.SetVolume(s.Volume())
CallCopyInMemSound(a) ==
    /\ ~panicked /\ SoundAt(a) /\ HeapHasRoom /\ heapCalls < MaxHeapCalls
    /\ heapCalls' = heapCalls + 1
    /\ IF ModeRejected
         THEN /\ panicked' = TRUE
              /\ heapOp' = [name |-> "ModePanic", on |-> a, new |-> 0]
              /\ UNCHANGED <<heap, players, snd>>
         ELSE /\ heap' = [heap EXCEPT ![FreshAddr] = SBCopy(heap[a])]
              /\ players' = players + 1
              /\ snd' = [snd EXCEPT ![FreshAddr] = DerivedSound(snd[a])]
              /\ heapOp' = [name |-> "Copy", on |-> a, new |-> FreshAddr]
              /\ UNCHANGED panicked
    /\ DeriveKeeps

\* ClipInMemSoundPercent(s, fromPercent, toPercent), s the sound at a: the
\* test, sb := Copy(), "sb.Data = sb.Data[start:end]" (which panics when
\* start > end), p := Ctx.NewPlayer(sb), p.SetVolume(s.Volume())
CallClipInMemSoundPercent(a, fromPercent, toPercent) ==
    /\ ~panicked /\ SoundAt(a) /\ HeapHasRoom /\ heapCalls < MaxHeapCalls
    /\ heapCalls' = heapCalls + 1
    /\ IF ModeRejected
         THEN /\ panicked' = TRUE
              /\ heapOp' = [name |-> "ModePanic", on |-> a, new |-> 0]
              /\ UNCHANGED <<heap, players, snd>>
         ELSE LET c     == SBCopy(heap[a])
                  start == ClipIndex(c.hi - c.lo, fromPercent)
                  end   == ClipIndex(c.hi - c.lo, toPercent)
              IN  IF start > end
                    THEN /\ heap' = [heap EXCEPT ![FreshAddr] = c]
                         /\ heapOp' = [name |-> "ClipPanic", on |-> a, new |-> FreshAddr]
                         /\ panicked' = TRUE
                         /\ UNCHANGED <<players, snd>>
                    ELSE /\ heap' = [heap EXCEPT ![FreshAddr] =
                                        [c EXCEPT !.lo = c.lo + start, !.hi = c.lo + end]]
                         /\ heapOp' = [name |-> "Clip", on |-> a, new |-> FreshAddr,
                                       from |-> fromPercent, to |-> toPercent]
                         /\ players' = players + 1
                         /\ snd' = [snd EXCEPT ![FreshAddr] = DerivedSound(snd[a])]
                         /\ UNCHANGED panicked
    /\ DeriveKeeps

\* A call on the sound at a that changes a field of the Sound only
DeriveSets(a, name, field) ==
    /\ ~panicked /\ SoundAt(a) /\ heapCalls < MaxHeapCalls
    /\ heapCalls' = heapCalls + 1
    /\ snd' = [snd EXCEPT ![a] = field]
    /\ heapOp' = [name |-> name, on |-> a, new |-> 0]
    /\ UNCHANGED <<heap, players, panicked>>
    /\ DeriveKeeps

\* SetVolume(newVol) with newVol in [0, 1]: s.Player.SetVolume(newVol)
DeriveSetVolume(a, newVol) ==
    /\ ~VolumeRejected(newVol)
    /\ DeriveSets(a, "SetVolume", [snd[a] EXCEPT !.vol = newVol])

\* LoopAsync(-1): "s.IsLooping = true"; what the sound's player then reads
\* of the buffer is a Read on it
DeriveLoopAsync(a) == DeriveSets(a, "LoopAsync", [snd[a] EXCEPT !.looping = TRUE])

\* SeekToPercent(percent) on the sound at a, a memory sound that is not
\* playing: s.Data.Seek(int64(float64(s.Info.Size) * percent), io.SeekStart)
DeriveSeekToPercent(a, percent) ==
    /\ ~panicked /\ mode = "Memory" /\ heap[a].live /\ heapCalls < MaxHeapCalls
    /\ heapCalls' = heapCalls + 1
    /\ LET offset == (snd[a].size * clamp01F64(percent)[1]) \div clamp01F64(percent)[2]
           r == SBSeek(heap[a].hi - heap[a].lo, heap[a].pos, offset, SeekStart)
       IN  heap' = [heap EXCEPT ![a].pos = r.pos]
    /\ heapOp' = [name |-> "SeekToPercent", on |-> a, new |-> 0, percent |-> percent]
    /\ UNCHANGED <<players, snd, panicked>>
    /\ DeriveKeeps

\* A sound as NewSoundStreaming or NewSoundMem returns it; only the memory sound
\* has a SoundBuffer
InitDerive ==
    /\ sbData = SoundData /\ sbPos = 0 /\ sbOp = NoOp /\ sbRes = NoRes /\ panicked = FALSE
    /\ mode \in {"Streaming", "Memory"}
    /\ dataNil = FALSE
    /\ fileState = IF mode = "Streaming" THEN "open" ELSE "none"
    /\ fileCloses = 0 /\ playerCloses = 0 /\ closeCalls = 0 /\ closeLast = NoClose
    /\ IsLooping = FALSE
    /\ PlayerIdle
    /\ CtrlIdle
    /\ backing = [i \in 1..ArrLen |-> i]
    /\ heap = [a \in Addrs |-> IF a = 1 /\ mode = "Memory"
                                 THEN [live |-> TRUE, lo |-> 0, hi |-> ArrLen, pos |-> 0]
                                 ELSE NoBuf]
    /\ heapOp = NoHeapOp
    /\ heapCalls = 0
    /\ StreamIdle /\ LateIdle

\* The volume a sound is set to, and the fractions it is sought to
DeriveVolumes == {<<1, 2>>}
DerivePercents == {<<3, 2>>}

NextDerive ==
    \/ \E a \in Addrs : CallCopyInMemSound(a)
    \/ \E a \in Addrs, f, t \in ClipPercents : CallClipInMemSoundPercent(a, f, t)
    \/ \E a \in Addrs, outLen \in 0..MaxOutLen : HeapRead(a, outLen)
    \/ \E a \in Addrs, newVol \in DeriveVolumes : DeriveSetVolume(a, newVol)
    \/ \E a \in Addrs : DeriveLoopAsync(a)
    \/ \E a \in Addrs, percent \in DerivePercents : DeriveSeekToPercent(a, percent)

SpecDerive == InitDerive /\ [][NextDerive]_vars

(***************************************************************************)
(* A streamed WAV sound: the device player's thread reads the stream while *)
(* one caller thread (or the loop task) seeks and waits in Wait, and other *)
(* threads pause the player.  mpc is the caller's position: "w0" at the    *)
(* top of Wait, "wrem" inside RemainingTime, "sleep" in Wait's sleep loop. *)
(***************************************************************************)
\* What the caller's steps outside the stream leave alone
LockKeeps ==
    /\ UNCHANGED <<sbVars, soundVars, IsLooping, buf, eof, stopped>>
    /\ UNCHANGED <<mctx, mwl, arg, calls, ctlVars, taskVars, histVars>>
    /\ UNCHANGED <<kind, skFailed, mutex, wsPos, wsPCMStart, decPos, decOK, rpc, rd>>
    /\ UNCHANGED <<copyVars, lateVars>>

\* PlayAsync on the sound: the device thread starts reading
LockPlay ==
    /\ mpc = "idle" /\ ~playing
    /\ playing' = TRUE
    /\ UNCHANGED <<mpc, spc, sk>>
    /\ LockKeeps

\* Pause, from any thread: s.IsLooping = false; s.Player.Pause()
LockPause ==
    /\ playing
    /\ playing' = FALSE
    /\ UNCHANGED <<mpc, spc, sk>>
    /\ LockKeeps

\* The player has read the stream to its end and played it out
LockPlayerStops ==
    /\ playing /\ rpc = "idle" /\ decPos >= FileLen
    /\ playing' = FALSE
    /\ UNCHANGED <<mpc, spc, sk>>
    /\ LockKeeps

\* The device thread calls Read while the player is playing
LockReadCall(outLen) == playing /\ WavReadCall(outLen)

\* The caller seeks (SeekToPercent, SeekToTime, the loop task's rewind)
LockSeekCall(offset, whence) == mpc = "idle" /\ WavSeekCall(offset, whence)

\* The caller enters Wait (from PlaySync, WaitLoop or the loop task too)
LockWaitCall ==
    /\ mpc = "idle" /\ spc = "idle"
    /\ mpc' = "w0"
    /\ UNCHANGED <<playing, spc, sk>>
    /\ LockKeeps

\* Wait: "if !s.IsPlaying() { return }", then "sleepTime := s.RemainingTime() / 25",
\* which calls s.Data.Seek(0, io.SeekCurrent)
LockWaitRemaining ==
    /\ mpc = "w0" /\ decOK
    /\ IF playing
         THEN /\ mpc' = "wrem"
              /\ sk' = [NoSeek EXCEPT !.offset = 0, !.whence = SeekCurrent]
              /\ spc' = "lock"
         ELSE /\ mpc' = "idle"
              /\ UNCHANGED <<spc, sk>>
    /\ UNCHANGED playing
    /\ LockKeeps

\* RemainingTime has returned: "for s.Player.IsPlaying() { time.Sleep(sleepTime) }"
LockWaitSleep ==
    /\ mpc = "wrem" /\ spc = "idle"
    /\ mpc' = IF playing THEN "sleep" ELSE "idle"
    /\ UNCHANGED <<playing, spc, sk>>
    /\ LockKeeps

\* A sleep ends and the player is found not playing: Wait returns
LockWaitWake ==
    /\ mpc = "sleep" /\ ~playing
    /\ mpc' = "idle"
    /\ UNCHANGED <<playing, spc, sk>>
    /\ LockKeeps

\* NewSoundStreaming has returned a WAV sound
InitLock ==
    /\ sbData = SoundData /\ sbPos = 0 /\ sbOp = NoOp /\ sbRes = NoRes /\ panicked = FALSE
    /\ SoundIdle
    /\ IsLooping = FALSE
    /\ PlayerIdle
    /\ CtrlIdle
    /\ CopyIdle
    /\ LateIdle
    /\ StreamNew("wav")

LockSeekFirst == \E ioFails \in BOOLEAN : WavSeekFirst(ioFails)
LockSeekRewind == \E outcome \in RewindOutcomes : WavSeekRewind(outcome)
LockSeekAgain == \E ioFails \in BOOLEAN : WavSeekAgain(ioFails)

NextLock ==
    \/ LockPlay
    \/ LockPause
    \/ LockPlayerStops
    \/ \E outLen \in 0..MaxOutLen : LockReadCall(outLen)
    \/ ReadLock
    \/ WavReadChunk
    \/ WavReadPos
    \/ ReadUnlock
    \/ \E offset \in SeekOffsets, whence \in {SeekStart, SeekCurrent, SeekEnd} :
         LockSeekCall(offset, whence)
    \/ SeekLock
    \/ LockSeekFirst
    \/ LockSeekRewind
    \/ LockSeekAgain
    \/ WavSeekSet
    \/ LockWaitCall
    \/ LockWaitRemaining
    \/ LockWaitSleep
    \/ LockWaitWake

\* A thread that can run its next statement runs it in the end (the Go
\* scheduler preempts), a file operation returns, and a thread blocked in
\* Lock gets the mutex if it is free again and again (sync.Mutex hands the
\* mutex to a waiter that has waited long).  Nothing makes a thread call.
LockFair ==
    /\ WF_vars(WavReadChunk) /\ WF_vars(WavReadPos) /\ WF_vars(ReadUnlock)
    /\ WF_vars(LockSeekFirst) /\ WF_vars(LockSeekRewind) /\ WF_vars(LockSeekAgain)
    /\ WF_vars(WavSeekSet)
    /\ SF_vars(ReadLock) /\ SF_vars(SeekLock)

SpecLock == InitLock /\ [][NextLock]_vars /\ LockFair

(***************************************************************************)
(* The playback controller with its threads scheduled fairly, for what     *)
(* LoopAsync brings about in the end.  api keeps the last LoopAsync call.  *)
(***************************************************************************)
\* LoopAsync(n), as MainLoopAsync, the call remembered
LoopCall(n) ==
    /\ mpc = "idle" /\ calls < MaxCalls
    /\ calls' = calls + 1
    /\ arg' = n
    /\ IF n = 0
         THEN UNCHANGED <<mpc, mctx>>
         ELSE IF playing
           THEN mpc' = "p1" /\ mctx' = "la"
           ELSE mpc' = "la_play" /\ UNCHANGED mctx
    /\ raced' = (raced \/ (n # 0 /\ cpc = "p2"))
    /\ api' = [NoApi EXCEPT !.turn = ~api.turn, !.name = "LoopAsync", !.arg = <<n, 1>>]
    /\ UNCHANGED <<mwl, ctlVars, taskVars, owed, pauseDone, IsLooping,
                   playerVars, sbVars, soundVars>>
    /\ UNCHANGED <<volume, players, clipCut, load, snd>>
    /\ UNCHANGED <<copyVars, streamVars, raceVars, convVars, timeVars>>

\* The next statement of the goroutine that is at t
TaskStep(t) ==
    /\ t \in LiveTasks
    /\ \/ TaskInWait(t)
       \/ TaskCheck(t)
       \/ TaskSeekReset(t)
       \/ TaskSeek(t)
       \/ TaskPlay(t)
       \/ TaskClear(t)

\* Where a goroutine can be
TaskStates == [pc : {"w0", "w1", "w2", "chk", "seek1", "seek2", "play", "clr"}, ttp : -1..MaxN]

NextLoop ==
    \/ \E n \in LoopCounts : LoopCall(n)
    \/ MainPause
    \/ MainWaitLoop
    \/ MainWait
    \/ MainPauseFlag
    \/ MainPausePlayer
    \/ MainLoopAsyncDrain
    \/ MainWaitLoopTest
    \/ MainInWait
    \/ MainLoopAsyncPlay
    \/ MainLoopAsyncSpawn
    \/ CtlPauseFlag
    \/ CtlPausePlayer
    \/ \E t \in TaskStates : TaskStep(t)
    \/ DeviceRead
    \/ DevicePlayOut

\* Every thread that can run its next statement runs it in the end: the
\* callers inside a call, each goroutine, the device thread.  A thread in
\* Wait's loop sleeps between its looks at the player, so it is only
\* certain to go on if the player stays not playing.  Nothing makes a
\* caller call.
LoopFair ==
    /\ WF_vars(MainPauseFlag) /\ WF_vars(MainPausePlayer) /\ WF_vars(MainLoopAsyncDrain)
    /\ WF_vars(MainWaitLoopTest) /\ WF_vars(MainInWait) /\ WF_vars(MainLoopAsyncPlay)
    /\ WF_vars(MainLoopAsyncSpawn)
    /\ WF_vars(CtlPausePlayer)
    /\ \A t \in TaskStates : WF_vars(TaskStep(t))
    /\ WF_vars(DeviceRead) /\ WF_vars(DevicePlayOut)

SpecLoop == Init /\ [][NextLoop]_vars /\ LoopFair

(***************************************************************************)
(* The loaders and GetSoundFileType.  A path is a sequence of characters.  *)
(***************************************************************************)
\* Most device players made in SpecLoad
MaxPlayers == 3

\* strings.HasSuffix
HasSuffix(str, suffix) ==
    /\ Len(str) >= Len(suffix)
    /\ SubSeq(str, Len(str) - Len(suffix) + 1, Len(str)) = suffix

\* path.Ext: the suffix that starts at the last dot of the path's last
\* slash-separated element, the dot included; empty if there is no dot
Ext(fpath) ==
    LET dots == {i \in 1..Len(fpath) :
                   fpath[i] = "." /\ \A j \in i..Len(fpath) : fpath[j] # "/"}
    IN  IF dots = {}
          THEN <<>>
          ELSE SubSeq(fpath, CHOOSE i \in dots : \A j \in dots : j <= i, Len(fpath))

DotMp3 == <<".", "m", "p", "3">>

\* GetSoundFileType: switch path.Ext(fpath) { case "mp3": MP3; default: Unknown }
GetSoundFileType(fpath) ==
    IF Ext(fpath) = <<"m", "p", "3">> THEN "MP3" ELSE "Unknown"

\* The loaders' own test: strings.HasSuffix(fpath, ".mp3")
LoaderType(fpath) == IF HasSuffix(fpath, DotMp3) THEN "MP3" ELSE "Unknown"

\* if soundType == SoundType_Unknown { return nil, ErrunknownSoundType }
LoaderRejectsNothing(soundType) == FALSE

LoaderRejects(soundType) == soundType = "Unknown"

LoadKeeps ==
    /\ UNCHANGED <<volume, clipCut, api, snd>>
    /\ UNCHANGED coreVars
    /\ UNCHANGED <<copyVars, streamVars, raceVars, convVars, timeVars>>

CallGetSoundFileType(fpath) ==
    /\ load' = [NoLoad EXCEPT !.turn = ~load.turn, !.fn = "GetSoundFileType",
                              !.path = fpath, !.type = GetSoundFileType(fpath)]
    /\ UNCHANGED players
    /\ LoadKeeps

\* NewSoundStreaming.  outcome: "ok", or os.Open fails ("ioFails"), or
\* mp3.NewDecoder fails ("decodeFails")
CallNewSoundStreaming(fpath, outcome) ==
    /\ players < MaxPlayers
    /\ LET soundType == LoaderType(fpath)
           called == [NoLoad EXCEPT !.turn = ~load.turn, !.fn = "NewSoundStreaming",
                                    !.path = fpath, !.type = soundType]
       IN  IF LoaderRejects(soundType)
             THEN /\ load' = [called EXCEPT !.err = "ErrunknownSoundType"]
                  /\ UNCHANGED players
             ELSE CASE outcome = "ioFails" ->
                         /\ load' = [called EXCEPT !.io = "Open", !.err = "io"]
                         /\ UNCHANGED players
                    [] outcome = "decodeFails" ->
                         /\ load' = [called EXCEPT !.io = "Open", !.handle = TRUE,
                                                   !.err = "decode"]
                         /\ UNCHANGED players
                    [] OTHER ->
                         /\ load' = [called EXCEPT !.io = "Open", !.handle = TRUE,
                                                   !.sound = TRUE]
                         /\ players' = players + 1
    /\ LoadKeeps

\* NewSoundMem.  outcome: "ok", or os.ReadFile fails ("ioFails"), or
\* mp3.NewDecoder fails ("decodeFails"), or ReadAllFromReader fails
\* ("readAllFails")
CallNewSoundMem(fpath, outcome) ==
    /\ players < MaxPlayers
    /\ LET soundType == LoaderType(fpath)
           called == [NoLoad EXCEPT !.turn = ~load.turn, !.fn = "NewSoundMem",
                                    !.path = fpath, !.type = soundType]
       IN  IF LoaderRejects(soundType)
             THEN /\ load' = [called EXCEPT !.err = "ErrunknownSoundType"]
                  /\ UNCHANGED players
             ELSE CASE outcome = "ioFails" ->
                         /\ load' = [called EXCEPT !.io = "ReadFile", !.err = "io"]
                         /\ UNCHANGED players
                    [] outcome = "decodeFails" ->
                         /\ load' = [called EXCEPT !.io = "ReadFile", !.err = "decode"]
                         /\ UNCHANGED players
                    [] outcome = "readAllFails" ->
                         /\ load' = [called EXCEPT !.io = "ReadFile", !.err = "readAll"]
                         /\ UNCHANGED players
                    [] OTHER ->
                         /\ load' = [called EXCEPT !.io = "ReadFile", !.sound = TRUE]
                         /\ players' = players + 1
    /\ LoadKeeps

\* Paths: a file name, with or without a directory that has a dot in its
\* name, and an ending
PathStems == {<<"a">>, <<"d", ".", "x", "/", "a">>, <<>>}
PathEndings ==
    {<<>>, DotMp3, <<".", "w", "a", "v">>, <<".", "w", "a", "v", "e">>,
     <<".", "o", "g", "g">>, <<".", "t", "x", "t">>, <<"m", "p", "3">>,
     <<".", "m", "p", "3", "/", "b">>, <<".", "M", "P", "3">>}
LoadPaths == {stem \o ending : stem \in PathStems, ending \in PathEndings}
LoadOutcomes == {"ok", "ioFails", "decodeFails", "readAllFails"}

\* After Init, before any sound is loaded: no device player yet
InitLoad ==
    /\ sbData = SoundData /\ sbPos = 0 /\ sbOp = NoOp /\ sbRes = NoRes /\ panicked = FALSE
    /\ SoundIdle
    /\ IsLooping = FALSE
    /\ PlayerIdle
    /\ CtrlIdle
    /\ CopyIdle /\ StreamIdle /\ RaceIdle /\ ConvIdle /\ TimeIdle
    /\ volume = <<1, 1>> /\ players = 0 /\ clipCut = 0 /\ api = NoApi /\ load = NoLoad
    /\ snd = LoadedSounds

NextLoad ==
    \/ \E fpath \in LoadPaths : CallGetSoundFileType(fpath)
    \/ \E fpath \in LoadPaths, outcome \in LoadOutcomes \ {"readAllFails"} :
         CallNewSoundStreaming(fpath, outcome)
    \/ \E fpath \in LoadPaths, outcome \in LoadOutcomes : CallNewSoundMem(fpath, outcome)

SpecLoad == InitLoad /\ [][NextLoad]_vars

(***************************************************************************)
(* PlaySync and RemainingTime called by the one thread that uses a memory  *)
(* sound, which NewSoundMem or ClipInMemSoundPercent returned              *)
(***************************************************************************)
\* A call by the one caller that leaves the sound's fields to the action A
SyncCalls(name) ==
    /\ ~panicked /\ mpc = "idle"
    /\ api' = [NoApi EXCEPT !.turn = ~api.turn, !.name = name]
    /\ UNCHANGED <<volume, players, clipCut, load, snd>>
    /\ UNCHANGED <<soundVars, IsLooping, sbData, sbOp, sbRes, panicked>>
    /\ UNCHANGED <<ctlVars, taskVars, histVars, mctx, mwl, arg, calls>>
    /\ UNCHANGED <<copyVars, streamVars, raceVars, convVars, timeVars>>

\* Sound.PlaySync: s.PlayAsync(), then s.Wait(), in which the caller is next
SyncPlaySync ==
    /\ SyncCalls("PlaySync")
    /\ PlayerPlay
    /\ mpc' = "w0"

\* Sound.PlayAsync
SyncPlayAsync ==
    /\ SyncCalls("PlayAsync")
    /\ PlayerPlay
    /\ UNCHANGED mpc

\* Sound.Pause (the looping flag is false throughout)
SyncPause ==
    /\ SyncCalls("Pause")
    /\ PlayerPause
    /\ UNCHANGED <<sbPos, mpc>>

\* Sound.RemainingTime, called between the caller's other calls
SyncRemainingTime == mpc = "idle" /\ CallRemainingTime

\* The buffers ClipInMemSoundPercent makes of a buffer of len bytes, as
\* <<start, end>>, and the whole buffer
Views(len) ==
    {<<0, len>>} \cup
    {v \in {<<ClipIndex(len, f), ClipIndex(len, t)>> : f, t \in ClipPercents} : v[1] <= v[2]}

\* After Init has set a legal format: a memory sound of TimeLen bytes as
\* NewSoundMem returns it, or a clip of that sound
InitSync ==
    /\ \E v \in Views(TimeLen) :
         /\ sbData = [i \in 1..(v[2] - v[1]) |-> 1]
         /\ clipCut = TimeLen - (v[2] - v[1])
    /\ sbPos = 0 /\ sbOp = NoOp /\ sbRes = NoRes /\ panicked = FALSE
    /\ SoundIdle
    /\ IsLooping = FALSE
    /\ PlayerIdle
    /\ CtrlIdle
    /\ CopyIdle /\ StreamIdle /\ RaceIdle /\ TimeIdle
    /\ volume = <<1, 1>> /\ players = 1 /\ api = NoApi /\ load = NoLoad
    /\ snd = LoadedSounds
    /\ SamplingRate \in SampleRates
    /\ ChanCount \in SoundChannelCounts
    /\ BitDepth \in SoundBitDepths
    /\ BytesPerSecond <= TimeLen * 1000
    /\ conv = [NoConv EXCEPT !.pc = "ready"]

NextSync ==
    \/ SyncPlaySync
    \/ MainInWait
    \/ SyncPlayAsync
    \/ SyncPause
    \/ SyncRemainingTime
    \/ \E percent \in SeekPercents : ApiSeekToPercent(percent)
    \/ DeviceRead
    \/ DevicePlayOut

SpecSync == InitSync /\ [][NextSync]_vars

(***************************************************************************)
(* Properties of the playback controller (checked under Spec)              *)
(***************************************************************************)
\* Steps of the run, as seen from the state before and after
MainLeavesWaitLoop == mpc = "wl" /\ mctx = "api" /\ mpc' = "idle"
TaskMoves(t) == CopiesIn(t, tasks') < CopiesIn(t, tasks)
TaskReplays == \E t \in LiveTasks : t.pc \in {"seek1", "seek2", "play"} /\ TaskMoves(t)
\* A thread enters Wait and takes its first statement, the IsPlaying test
MainStartsWait == mpc = "w0" /\ mpc' # "w0"
TaskStartsWait(t) == t.pc = "w0" /\ TaskMoves(t)
\* A thread that blocked in Wait leaves its last loop, that is Wait returns
MainEndsWait == mpc = "w2" /\ mpc' # "w2"
TaskEndsWait(t) == t.pc = "w2" /\ TaskMoves(t)
LoopOver == mpc # "la_spawn" /\ tasks = EmptyBag

\* C1: after LoopAsync(n), n >= 1, with no Pause (owed is counted), WaitLoop
\* returns only when all n playbacks have been started and none is still in
\* progress.
C1_WaitLoopOutlastsPlays ==
    [][(MainLeavesWaitLoop /\ owed # NotCounted)
         => (owed <= 0 /\ ~playing)]_vars

\* C2: at most one loop goroutine of the sound is alive at any time.
C2_OneLoopTask == BagCardinality(tasks) <= 1

\* C3: once a Pause call has returned, and until LoopAsync acts again, no loop
\* goroutine performs a step of SeekToPercent(0) or PlayAsync.
C3_NoReplayAfterPause == [][(pauseDone /\ pauseDone') => ~TaskReplays]_vars

\* C4: once a Pause call has returned, and until LoopAsync acts again, none of the
\* loop's remaining iterations is played: no playback starts.
C4_PauseEndsLoop == [][(pauseDone /\ pauseDone') => ~(~playing /\ playing')]_vars

\* C5: LoopAsync(n), n >= 1, on a sound that is not playing, with no Pause (owed
\* is counted), never starts more than n playbacks, and has started exactly n
\* when its loop is over.
C5_PlaysExactlyN ==
    owed # NotCounted => (owed >= 0 /\ (LoopOver => owed = 0))

\* C8 as stated: a Wait that found the sound not playing returns at once, and a
\* Wait that blocked returns only when the player is not playing and its
\* unplayed buffer is empty.
C8_WaitUntilDrained ==
    [][/\ MainStartsWait => (mpc' = "w1" <=> playing)
       /\ MainEndsWait => (~playing /\ buf = 0)
       /\ \A t \in LiveTasks :
            /\ TaskStartsWait(t) => (CopiesIn([t EXCEPT !.pc = "w1"], tasks') >
                                       CopiesIn([t EXCEPT !.pc = "w1"], tasks) <=> playing)
            /\ TaskEndsWait(t) => (~playing /\ buf = 0)]_vars

\* C8 amended: a Wait that found the sound not playing returns at once, and a
\* Wait that blocked returns only when the player is not playing; the unplayed
\* buffer is empty then unless a Pause stopped the playback.
C8_WaitUntilNotPlaying ==
    [][/\ MainStartsWait => (mpc' = "w1" <=> playing)
       /\ MainEndsWait => (~playing /\ (buf = 0 \/ stopped))
       /\ \A t \in LiveTasks :
            /\ TaskStartsWait(t) => (CopiesIn([t EXCEPT !.pc = "w1"], tasks') >
                                       CopiesIn([t EXCEPT !.pc = "w1"], tasks) <=> playing)
            /\ TaskEndsWait(t) => (~playing /\ (buf = 0 \/ stopped))]_vars

\* C8 witness: a thread that blocked in Wait is about to return from it after a
\* Pause, with bytes still unplayed in the player's buffer.
C8_Witness ==
    /\ mpc = "w2" \/ \E t \in LiveTasks : t.pc = "w2"
    /\ ~playing /\ buf > 0 /\ stopped

\* A step that is the first statement of a Pause call (s.IsLooping = false)
\* and one that is its second (s.Player.Pause()), with which Pause returns
PauseBegins == (mpc \in {"idle", "p1"} /\ mpc' = "p2") \/ (cpc = "idle" /\ cpc' = "p2")
PauseReturns == (mpc = "p2" /\ mpc' # "p2") \/ (cpc = "p2" /\ cpc' = "done")

C6_CloseIdempotent ==
    /\ playerCloses <= 1
    /\ fileCloses <= 1
    /\ closeCalls >= 2 =>
         /\ closeLast.wasClosed
         /\ ~closeLast.fdTried /\ ~closeLast.plTried
         /\ closeLast.ret = NilErr

C6_Witness == closeCalls >= 2 /\ playerCloses = 1 /\ fileCloses = 1

\* C7: Close on an open sound clears Data, closes the player and (when the sound
\* has a file) the file, and returns nil if both succeeded, the one error if one
\* failed, and an error holding both messages if both failed.
C7_CloseErrors ==
    (closeCalls >= 1 /\ ~closeLast.wasClosed) =>
        /\ dataNil
        /\ closeLast.plTried
        /\ mode = "Streaming" => closeLast.fdTried
        /\ (closeLast.fdErr = NilErr /\ closeLast.plErr = NilErr) => closeLast.ret = NilErr
        /\ (closeLast.fdErr # NilErr /\ closeLast.plErr = NilErr) => closeLast.ret = FileErr
        /\ (closeLast.fdErr = NilErr /\ closeLast.plErr # NilErr) => closeLast.ret = PlayerErr
        /\ (closeLast.fdErr # NilErr /\ closeLast.plErr # NilErr) =>
             /\ closeLast.ret \notin {FileErr, PlayerErr, NilErr}
             /\ \E i, j \in 1..Len(closeLast.ret) :
                  /\ i < j
                  /\ closeLast.ret[i] = FileErr[1]
                  /\ closeLast.ret[j] = PlayerErr[1]

C7_Witness ==
    /\ closeCalls >= 1 /\ ~closeLast.wasClosed /\ mode = "Streaming"
    /\ closeLast.fdErr # NilErr /\ closeLast.plErr # NilErr

(***************************************************************************)
(* Properties of SoundBuffer (checked under SpecBuf)                       *)
(***************************************************************************)
ValidWhence(w) == w \in {SeekStart, SeekCurrent, SeekEnd}
\* The position a Seek call asks for, in unbounded arithmetic
AskedPos(op) ==
    op.offset + (CASE op.whence = SeekStart -> 0
                   [] op.whence = SeekCurrent -> op.before
                   [] op.whence = SeekEnd -> Len(sbData)
                   [] OTHER -> 0)

\* C9: a Seek to a negative position fails with ErrNegativeSeekPos, a Seek with
\* an unknown whence fails with ErrInvalidWhence, both leave Pos as it was;
\* Seek fails in no other way, and a Seek that succeeds returns the new Pos.
C9_SeekErrors ==
    sbOp.name = "Seek" =>
        /\ ~ValidWhence(sbOp.whence) =>
             sbRes.err = "ErrInvalidWhence" /\ sbPos = sbOp.before
        /\ (ValidWhence(sbOp.whence) /\ AskedPos(sbOp) < 0) =>
             sbRes.err = "ErrNegativeSeekPos" /\ sbPos = sbOp.before
        /\ sbRes.err \in {"nil", "ErrInvalidWhence", "ErrNegativeSeekPos"}
        /\ sbRes.err = "ErrInvalidWhence" => ~ValidWhence(sbOp.whence)
        /\ sbRes.err = "ErrNegativeSeekPos" => Wrap(AskedPos(sbOp)) < 0
        /\ sbRes.err # "nil" => sbPos = sbOp.before
        /\ sbRes.err = "nil" => (sbRes.n = sbPos /\ sbPos = Wrap(AskedPos(sbOp)))
        /\ ~panicked

C9_Witness ==
    /\ sbOp.name = "Seek" /\ sbOp.whence = SeekCurrent /\ sbOp.before > 0
    /\ AskedPos(sbOp) < 0
    /\ sbRes.err = "ErrNegativeSeekPos"

\* C10: every position at or past len(Data) can be seeked to, and a Read with the
\* cursor at or past len(Data) returns 0 bytes and io.EOF, without a panic and
\* without moving the cursor.
C10_ReadPastEnd ==
    /\ (sbOp.name = "Seek" /\ ValidWhence(sbOp.whence)
          /\ AskedPos(sbOp) >= Len(sbData) /\ AskedPos(sbOp) <= MaxInt)
         => (sbRes.err = "nil" /\ sbPos = AskedPos(sbOp))
    /\ (sbOp.name = "Read" /\ sbOp.before >= Len(sbData))
         => (~panicked /\ sbRes.n = 0 /\ sbRes.err = "EOF" /\ sbPos = sbOp.before)

(***************************************************************************)
(* Properties of SoundBuffer.Copy and clipping (checked under SpecCopy)    *)
(***************************************************************************)
\* C11: Copy returns a new buffer with cursor 0 over the same bytes; Read and
\* Seek on one buffer change only that buffer's cursor, never its range nor any
\* other buffer; a clip returns a new buffer with cursor 0 over a part of the
\* origin's range and leaves every existing buffer, and the bytes, as they were.
C11_CopyIndependent ==
    [][LET op == heapOp' IN
        /\ backing' = backing
        /\ \A a \in Addrs :
             (heap[a].live /\ ~(op.name \in {"Read", "Seek"} /\ a = op.on))
                => heap'[a] = heap[a]
        /\ op.name \in {"Read", "Seek"} =>
             /\ heap'[op.on].lo = heap[op.on].lo
             /\ heap'[op.on].hi = heap[op.on].hi
        /\ op.name \in {"Copy", "Clip"} =>
             /\ ~heap[op.new].live /\ heap'[op.new].live
             /\ heap'[op.new].pos = 0
        /\ op.name = "Copy" =>
             /\ heap'[op.new].lo = heap[op.on].lo
             /\ heap'[op.new].hi = heap[op.on].hi
        /\ op.name = "Clip" =>
             /\ heap[op.on].lo <= heap'[op.new].lo
             /\ heap'[op.new].lo <= heap'[op.new].hi
             /\ heap'[op.new].hi <= heap[op.on].hi]_vars

\* C11 witness: the original has been read from, a copy of it sits at another
\* cursor, and a clip of narrower range has just been made.
C11_Witness ==
    /\ heapOp.name = "Clip"
    /\ heap[1].pos > 0
    /\ \E a \in Addrs : heap[a].live /\ a # heapOp.new /\ heap[a].pos # heap[1].pos
    /\ heap[heapOp.new].hi - heap[heapOp.new].lo < heap[heapOp.on].hi - heap[heapOp.on].lo

(***************************************************************************)
(* Properties of the streamers (checked under SpecStream)                  *)
(***************************************************************************)
\* C12: on a WavStreamer on which no Seek has failed, after any Reads and Seeks
\* of any whence, Pos is at or after PCMStart (and so is the position a Seek
\* returns, which is the Pos it has just set).
C12_PosNeverBeforePCM ==
    (kind = "wav" /\ ~skFailed) => wsPos >= wsPCMStart

\* The absolute position the Seek call in progress asks for, from the state
\* the stream was in when the call started
WavSeekTarget ==
    CASE sk.whence = SeekStart -> sk.offset
      [] sk.whence = SeekCurrent -> sk.pos0 + sk.offset
      [] sk.whence = SeekEnd -> FileLen + sk.offset
      [] OTHER -> 0

\* C13: a WavStreamer.Seek that succeeds (on a stream on which no Seek has
\* failed) sets Pos to, and returns, the larger of PCMStart and the position
\* asked for, with or without a rewind.
C13_SeekLandsOnTarget ==
    [][(kind = "wav" /\ ~skFailed /\ spc = "set" /\ spc' = "idle") =>
          wsPos' = (IF WavSeekTarget < wsPCMStart THEN wsPCMStart ELSE WavSeekTarget)]_vars

\* C14: on a WavStreamer or an OggStreamer, Read and Seek are never both
\* between their Lock and Unlock, and whoever is there holds the mutex.
C14_ReadSeekExclusive ==
    /\ ~(rpc \in ReadCritical /\ spc \in SeekCritical)
    /\ rpc \in ReadCritical => mutex = "reader"
    /\ spc \in SeekCritical => mutex = "seeker"

\* C14 witness: a Seek waits at Lock while a Read is past the decoder's read
\* and has yet to unlock.
C14_Witness ==
    /\ spc = "lock"
    /\ rpc = "unlock"
    /\ rd.n > 0

\* The position the first Dec.Seek of the Seek call in progress gives, from
\* where the file stood when the call took the mutex
FirstSeekTarget == FileSeek(sk.dec0, sk.offset, sk.whence).n

\* A step of WavStreamer.Seek that is its return with an error
SeekErrReturn == kind = "wav" /\ spc \in {"seek1", "rewind", "seek2"} /\ spc' = "idle"

ReadThenSeek ==
    LET r == SBRead(sbData, bufPos0, bufRd.outLen)
        k == SBSeek(Len(sbData), r.pos, bufSk.offset, bufSk.whence)
    IN  [from |-> bufPos0, n |-> r.n, rerr |-> r.err, ret |-> k.ret, kerr |-> k.err,
         pos |-> k.pos]

SeekThenRead ==
    LET k == SBSeek(Len(sbData), bufPos0, bufSk.offset, bufSk.whence)
        r == SBRead(sbData, k.pos, bufRd.outLen)
    IN  [from |-> k.pos, n |-> r.n, rerr |-> r.err, ret |-> k.ret, kerr |-> k.err,
         pos |-> r.pos]

\* C15: when a Read by the device thread and a Seek by a caller thread on one
\* SoundBuffer have both returned, what they returned and the cursor they left
\* are what one of the two sequential orders gives.
C15_ReadSeekSerialized ==
    (bufRd.pc = "done" /\ bufSk.pc = "done") =>
        [from |-> bufRd.from, n |-> bufRd.n, rerr |-> bufRd.err, ret |-> bufSk.ret,
         kerr |-> bufSk.err, pos |-> sbPos] \in {ReadThenSeek, SeekThenRead}

\* C20: once the Seek that SeekToPercent(p) makes on a memory sound has
\* returned, and the device thread is not inside a Read, the cursor is at
\* floor(Info.Size * clamp(p)), or past it by the bytes of the one Read the
\* device thread made meanwhile; playing or not, for p below 0 and above 1 too.
C20_SeekToPercentLands ==
    (bufSk.via = "SeekToPercent" /\ bufSk.pc = "done" /\ bufRd.pc \in {"idle", "done"}) =>
        \/ sbPos = bufSk.offset
        \/ bufRd.pc = "done" /\ sbPos = bufSk.offset + bufRd.n

(***************************************************************************)
(* Properties of the time and byte arithmetic (checked under SpecConv)     *)
(***************************************************************************)
\* C16: for every legal format and every whole number of milliseconds t,
\* ByteCountFromPlayTime(PlayTimeFromByteCount(ByteCountFromPlayTime(t)))
\* is ByteCountFromPlayTime(t).
C16_RoundTrip ==
    conv.pc = "b2" => conv.b2 = conv.b

\* floor(b * 1000 / BytesPerSecond), computed in integers
ExactMs(b) == (b \div BytesPerSecond) * 1000 + ((b % BytesPerSecond) * 1000) \div BytesPerSecond

\* C17: with BytesPerSecond as Init sets it, ByteCountFromPlayTime(t) is
\* floor(ms * BytesPerSecond / 1000) and PlayTimeFromByteCount(b) is
\* floor(b * 1000 / BytesPerSecond) milliseconds; at 44100 Hz, 2 channels and
\* 2 bytes, 400 ms gives 70560 bytes and 70560 bytes give 400 ms.
C17_ConversionFormulas ==
    /\ conv.pc # "start" => BytesPerSecond = ChanCount * BitDepth * SamplingRate
    /\ conv.pc \in {"b", "t2", "b2"} => conv.b = (conv.t * BytesPerSecond) \div 1000
    /\ conv.pc \in {"t2", "b2"} => conv.t2 = ExactMs(conv.b)
    /\ (conv.pc \in {"t2", "b2"} /\ conv.t = 400
          /\ SamplingRate = 44100 /\ ChanCount = 2 /\ BitDepth = 2)
         => (conv.b = 70560 /\ conv.t2 = 400)

(***************************************************************************)
(* Properties of TotalTime and RemainingTime (checked under SpecTime)      *)
(***************************************************************************)
\* A step that is a call of RemainingTime on the open sound
RemainingTimeOnOpen == rem'.turn # rem.turn /\ ~IsClosed

\* C18 as stated: on an open sound RemainingTime returns the conversion of
\* total size - cursor - unplayed buffer bytes.
C18_RemainingLessBuffer ==
    [][RemainingTimeOnOpen =>
         rem'.ret = PlayTimeFromByteCount(InfoSize - sbPos - buf)]_vars

\* C18 amended: on an open sound RemainingTime returns the conversion of
\* total size - (cursor - unplayed buffer bytes): the bytes the device has
\* buffered but not played count as remaining.
C18_RemainingPlusBuffer ==
    [][RemainingTimeOnOpen =>
         /\ rem'.unplayed = buf
         /\ rem'.ret = PlayTimeFromByteCount(InfoSize - (sbPos - buf))]_vars

\* C18 witness: RemainingTime has been called on the open sound while the
\* device held unplayed bytes, and returned a time that is not zero.
C18_Witness ==
    rem.called /\ ~rem.closed /\ rem.unplayed > 0 /\ rem.ret > 0

\* C19: on the closed sound RemainingTime returns zero without a call on the
\* source or the player (and so without a panic), and TotalTime returns the
\* conversion of Info.Size, as it did while the sound was open.
C19_TimesAfterClose ==
    /\ (rem.called /\ rem.closed) => (rem.ret = 0 /\ ~rem.touched /\ ~panicked)
    /\ tot.closed # -1 => tot.closed = PlayTimeFromByteCount(InfoSize)
    /\ (tot.closed # -1 /\ tot.open # -1) => tot.closed = tot.open

\* C19 witness: the sound is closed, TotalTime was called before and after the
\* close and is not zero, and RemainingTime was called after the close.
C19_Witness ==
    /\ IsClosed
    /\ rem.called /\ rem.closed
    /\ tot.open > 0 /\ tot.closed > 0

(***************************************************************************)
(* Properties of SetVolume and the seeks of Sound (checked under SpecApi)  *)
(***************************************************************************)
Clamp(x, lo, hi) == IF x < lo THEN lo ELSE IF x > hi THEN hi ELSE x

\* C21: the offset SeekToTime(t) hands to the source's Seek from the start is
\* ByteCountFromPlayTime(t) clamped to [0, Info.Size]: 0 for a negative t and
\* Info.Size for a t past the end; on a buffer the cursor is set to it.
C21_SeekToTimeClamps ==
    [][(api'.turn # api.turn /\ api'.name = "SeekToTime") =>
         LET t == api'.arg[1] IN
         /\ api'.offset = Clamp(ByteCountFromPlayTime(t), 0, InfoSize)
         /\ t < 0 => api'.offset = 0
         /\ ByteCountFromPlayTime(t) > InfoSize => api'.offset = InfoSize
         /\ sbPos' = api'.offset]_vars

\* C21 witness: a SeekToTime past the end has put the cursor on Info.Size, in a
\* sound long enough for a shorter time to fall strictly inside it.
C21_Witness ==
    /\ api.name = "SeekToTime" /\ api.arg[1] = 2
    /\ api.offset = InfoSize /\ sbPos = InfoSize
    /\ ByteCountFromPlayTime(1) > 0 /\ ByteCountFromPlayTime(1) < InfoSize

\* C22: SetVolume(v) with v below 0 or above 1 panics and leaves the player's
\* volume as it was; with 0 <= v <= 1 it sets the player's volume to v without
\* a panic; in both cases the play state, the looping flag, the cursor and the
\* player's buffer are unchanged.
C22_SetVolumeChecked ==
    [][(api'.turn # api.turn /\ api'.name = "SetVolume") =>
         LET v == api'.arg IN
         /\ (v[1] < 0 \/ v[1] > v[2]) => (panicked' /\ volume' = volume)
         /\ (0 <= v[1] /\ v[1] <= v[2]) => (~panicked' /\ volume' = v)
         /\ playing' = playing /\ IsLooping' = IsLooping
         /\ sbPos' = sbPos /\ buf' = buf /\ eof' = eof]_vars

\* C22 witness: the volume of a playing, looping sound part of which has been
\* read was set to the bound 0, and a later SetVolume above 1 has panicked.
C22_Witness ==
    /\ api.name = "SetVolume" /\ api.arg = <<3, 2>> /\ panicked
    /\ volume = <<0, 1>>
    /\ playing /\ IsLooping /\ sbPos > 0

\* C30: SeekToPercent and SeekToTime reset the device player exactly when it
\* is not playing as they are called; called on a playing sound they leave the
\* player playing with its buffer as it was; in both cases the looping flag and
\* the volume are unchanged.
C30_SeekResetsWhenIdle ==
    [][(api'.turn # api.turn /\ api'.name \in {"SeekToPercent", "SeekToTime"}) =>
         /\ api'.reset <=> ~playing
         /\ playing => (playing' /\ buf' = buf /\ eof' = eof /\ stopped' = stopped)
         /\ ~playing => (~playing' /\ buf' = 0 /\ ~eof' /\ ~stopped')
         /\ IsLooping' = IsLooping /\ volume' = volume]_vars

\* C30 witness: SeekToTime was called on a playing, looping sound with bytes in
\* the player's buffer and a volume that is not the default, and reset nothing.
C30_Witness ==
    /\ api.name = "SeekToTime" /\ ~api.reset
    /\ playing /\ buf > 0 /\ IsLooping /\ volume = <<1, 2>>

(***************************************************************************)
(* Properties of CopyInMemSound and ClipInMemSoundPercent (checked under    *)
(* SpecDerive)                                                             *)
(***************************************************************************)
DeriveCalled == heapOp'.name \in {"ModePanic", "ClipPanic", "Copy", "Clip"} /\ heapCalls' # heapCalls

\* C23: CopyInMemSound and ClipInMemSoundPercent called on a streaming sound
\* panic on the mode test with no buffer and no device player made; called on a
\* memory sound they never panic on that test, and when they return they have
\* made one buffer and one player.
C23_DeriveNeedsMemory ==
    [][DeriveCalled =>
         /\ mode = "Streaming" =>
               (panicked' /\ heapOp'.name = "ModePanic" /\ heap' = heap /\ players' = players)
         /\ mode = "Memory" =>
               /\ heapOp'.name # "ModePanic"
               /\ ~panicked' =>
                     /\ heapOp'.name \in {"Copy", "Clip"}
                     /\ players' = players + 1
                     /\ ~heap[heapOp'.new].live /\ heap'[heapOp'.new].live]_vars

\* C23 witness: a call on the streaming sound has panicked on the mode test,
\* the only player being the sound's own and no buffer on the heap.
C23_Witness ==
    /\ mode = "Streaming" /\ panicked /\ heapOp.name = "ModePanic"
    /\ players = 1 /\ \A a \in Addrs : ~heap[a].live

\* A step that is a call of ClipInMemSoundPercent on a memory sound
ClipCalled == heapOp'.name \in {"Clip", "ClipPanic"} /\ heapCalls' # heapCalls

\* C32: ClipInMemSoundPercent(s, from, to) returns a sound whose buffer is the
\* view [start, end) of the origin's current view, start and end the floor of
\* the clamped fractions times the current length, with cursor 0, a player of
\* its own at the origin's volume and the looping flag false; the origin's
\* range, cursor, player and flags are as before.
C32_ClipIsNarrowedView ==
    [][ClipCalled =>
         /\ ~panicked'
         /\ heapOp'.name = "Clip"
         /\ LET o     == heapOp'.on
                n     == heapOp'.new
                len   == heap[o].hi - heap[o].lo
                start == (len * clamp01F64(heapOp'.from)[1]) \div clamp01F64(heapOp'.from)[2]
                end   == (len * clamp01F64(heapOp'.to)[1]) \div clamp01F64(heapOp'.to)[2]
            IN  /\ ~heap[n].live /\ heap'[n].live
                /\ heap'[n].lo = heap[o].lo + start
                /\ heap'[n].hi = heap[o].lo + end
                /\ heap'[n].pos = 0
                /\ snd'[n].vol = snd[o].vol
                /\ snd'[n].looping = FALSE
                /\ snd'[n].player \notin {snd[a].player : a \in Addrs}
                /\ \A a \in Addrs \ {n} : heap'[a] = heap[a] /\ snd'[a] = snd[a]
                /\ backing' = backing]_vars

\* The memory sounds there are, by the address of their buffer
MemSounds == {a \in Addrs : mode = "Memory" /\ heap[a].live /\ snd[a].player # 0}

\* C33: Info.Size of every memory sound, copies and clips included, is the
\* length of the sound's own buffer, and after SeekToPercent the cursor of
\* the sound is within its buffer.
C33_SizeIsOwnLength ==
    /\ \A a \in MemSounds : snd[a].size = heap[a].hi - heap[a].lo
    /\ heapOp.name = "SeekToPercent" =>
          heap[heapOp.on].pos <= heap[heapOp.on].hi - heap[heapOp.on].lo

(***************************************************************************)
(* Properties of PlaySync (checked under SpecSync)                         *)
(***************************************************************************)
\* C24: on a memory sound used by one thread, a RemainingTime call that
\* follows the return of PlaySync with no call between them returns 0.
C24_NothingLeftAfterPlaySync ==
    [][(rem'.turn # rem.turn /\ api.name = "PlaySync") => rem'.ret = 0]_vars

C27_TypeByExtension ==
    load.fn = "GetSoundFileType" =>
        load.type = (CASE HasSuffix(load.path, DotMp3) -> "MP3"
                       [] HasSuffix(load.path, <<".", "w", "a", "v">>) -> "WAV"
                       [] HasSuffix(load.path, <<".", "w", "a", "v", "e">>) -> "WAV"
                       [] HasSuffix(load.path, <<".", "o", "g", "g">>) -> "OGG"
                       [] OTHER -> "Unknown")

FiniteLoopStarted == api.name = "LoopAsync" /\ api.arg[1] > 0 /\ mpc = "idle"

\* C29: a goroutine's exit leaves the looping flag false, the flag is set by
\* LoopAsync only, LoopAsync(0) changes nothing of the sound, and after
\* LoopAsync(n) with n >= 1 the flag is false in the end, unless LoopAsync
\* is called again before.
C29_FlagClearedInTheEnd ==
    /\ [][/\ (\E t \in LiveTasks : tasks' = tasks (-) SetToBag({t})) => ~IsLooping'
          /\ (~IsLooping /\ IsLooping') => (mpc = "la_spawn" /\ mpc' = "idle")
          /\ (api'.turn # api.turn /\ api'.arg[1] = 0) =>
                (mpc' = mpc /\ UNCHANGED <<IsLooping, playerVars, tasks, sbVars>>)]_vars
    /\ \A b \in BOOLEAN :
         (FiniteLoopStarted /\ IsLooping /\ api.turn = b) ~> (~IsLooping \/ api.turn # b)

\* The step is the last statement, "s.IsLooping = false", of a goroutine of
\* an endless loop
EndlessTaskClears ==
    \E t \in LiveTasks : t.ttp < 0 /\ t.pc = "clr" /\ tasks' = tasks (-) SetToBag({t})

\* C34: while the looping flag is true the goroutine of the latest LoopAsync is
\* alive, and a goroutine of an earlier LoopAsync never clears the flag the
\* later one has set: once a LoopAsync(n), n > 0, has returned with the flag
\* set, no goroutine of an endless loop (which an earlier call started) turns
\* the flag off.
C34_StaleTaskKeepsFlag ==
    /\ [](IsLooping => tasks # EmptyBag)
    /\ [][(FiniteLoopStarted /\ IsLooping /\ EndlessTaskClears) => IsLooping']_vars

\* C35: when NewSoundStreaming returns an error, no file the call opened is
\* still open and no Sound is returned.
C35_NoHandleLeftOpen ==
    (load.fn = "NewSoundStreaming" /\ load.err # "nil") => (~load.handle /\ ~load.sound)

====
